---------------------------- MODULE Spec2Model ----------------------------
(***************************************************************************)
(* A model of the PAIP-style pattern matcher of wesen/oak                   *)
(* (pkg/patternmatcher): the expression algebra, the bindings and the       *)
(* recursive matcher PatMatch with its operator dispatch.                   *)
(*                                                                          *)
(* PatMatch is a pure function.  It is modelled as a recursive operator,    *)
(* computed the way the Go code computes it, and it is applied by the one   *)
(* action Match to arguments drawn from bounded sets of expressions.        *)
(*                                                                          *)
(* A Go run-time panic (a method called on a nil Expression interface) is   *)
(* an outcome of its own: every operator that can panic returns it and      *)
(* every caller propagates it, as the Go run-time does.                     *)
(***************************************************************************)
EXTENDS Integers, Sequences, FiniteSets, TLC

(***************************************************************************)
(* Bounds of the model.                                                     *)
(***************************************************************************)
\* integer atoms range over -MaxInt .. MaxInt
MaxInt == 2
\* operator forms ?and / ?or / ?not carry up to MaxArgs sub-patterns
MaxArgs == 2
\* enumerated pattern lists and input lists have up to MaxLen elements
MaxLen == 2

(***************************************************************************)
(* Expressions (type Expression: Symbol, Atom, Cons, or the nil interface). *)
(* An Atom carries an int64, a float64 or a string; a float64 is kept as a  *)
(* count of halves (h = 3 is 1.5), which is exact for the values used.      *)
(***************************************************************************)
Nil == [t |-> "nil"]

Symbol(name) == [t |-> "sym", name |-> name]

AtomInt(i) == [t |-> "int", i |-> i]

AtomFloat(h) == [t |-> "float", h |-> h]

AtomStr(s) == [t |-> "str", s |-> s]

Cons(car, cdr) == [t |-> "cons", car |-> car, cdr |-> cdr]

IsSymbol(e) == e.t = "sym"

IsAtom(e) == e.t \in {"int", "float", "str"}

IsCons(e) == e.t = "cons"

\* strings.HasPrefix
HasPrefix(s, prefix) ==
    /\ Len(s) >= Len(prefix)
    /\ SubSeq(s, 1, Len(prefix)) = prefix

(***************************************************************************)
(* Equal: the three-valued outcome of e.Equal(other): "true", "false", or   *)
(* "panic" when the receiver is the nil interface.  Cons.Equal evaluates    *)
(* c.Car.Equal first and short-circuits as Go's && and || do.               *)
(***************************************************************************)
RECURSIVE Equal(_, _)
Equal(e, other) ==
    CASE e.t = "nil" -> "panic"
      [] e.t = "sym" ->
            IF IsSymbol(other) /\ e.name = other.name THEN "true" ELSE "false"
      [] e.t = "int" ->
            IF other.t = "int" /\ e.i = other.i THEN "true" ELSE "false"
      [] e.t = "float" ->
            IF other.t = "float" /\ e.h = other.h THEN "true" ELSE "false"
      [] e.t = "str" ->
            IF other.t = "str" /\ e.s = other.s THEN "true" ELSE "false"
      [] e.t = "cons" ->
            IF ~IsCons(other) THEN "false"
            ELSE LET carEq == Equal(e.car, other.car) IN
                 IF carEq # "true" THEN carEq
                 ELSE IF e.cdr = Nil /\ other.cdr = Nil THEN "true"
                 ELSE IF e.cdr # Nil /\ other.cdr # Nil
                      THEN Equal(e.cdr, other.cdr)
                 ELSE "false"

\* IsList
RECURSIVE IsList(_)
IsList(expr) ==
    IF expr = Nil THEN TRUE
    ELSE IF IsCons(expr) THEN IsList(expr.cdr)
    ELSE FALSE

IsVariable(expr) == IsSymbol(expr) /\ HasPrefix(expr.name, "?")

IsSegmentPattern(expr) ==
    /\ IsCons(expr)
    /\ IsSymbol(expr.car)
    /\ \/ HasPrefix(expr.car.name, "?*")
       \/ HasPrefix(expr.car.name, "?+")
       \/ HasPrefix(expr.car.name, "??")

IsSinglePattern(expr) ==
    /\ IsCons(expr)
    /\ IsSymbol(expr.car)
    /\ expr.car.name \in {"?is", "?and", "?or", "?not", "?if"}

\* ConsToSlice leaving out the cars that are nil
RECURSIVE ConsToSliceDropNil(_)
ConsToSliceDropNil(expr) ==
    IF ~IsCons(expr) THEN << >>
    ELSE IF expr.car = Nil THEN ConsToSliceDropNil(expr.cdr)
    ELSE <<expr.car>> \o ConsToSliceDropNil(expr.cdr)

\* ConsToSlice: the cars of a cons chain, up to the first non-Cons cdr
RECURSIVE ConsToSlice(_)
ConsToSlice(expr) ==
    IF IsCons(expr) THEN <<expr.car>> \o ConsToSlice(expr.cdr) ELSE << >>

\* SliceToCons ending the chain with the last element as the cdr of the
\* last cell
RECURSIVE SliceToConsDotted(_)
SliceToConsDotted(elements) ==
    IF Len(elements) = 0 THEN Nil
    ELSE IF Len(elements) = 2 THEN Cons(elements[1], elements[2])
    ELSE Cons(Head(elements), SliceToConsDotted(Tail(elements)))

\* SliceToCons: a right-nested cons chain ending in a nil cdr; nil when empty
RECURSIVE SliceToCons(_)
SliceToCons(elements) ==
    IF Len(elements) = 0 THEN Nil
    ELSE Cons(Head(elements), SliceToCons(Tail(elements)))

(***************************************************************************)
(* Bindings (type Binding map[string]Expression): a function from variable  *)
(* names to expressions.                                                    *)
(***************************************************************************)
NoBindings == << >>

Fail == ("__FAIL__" :> Symbol("__FAIL__"))

IsFail(bindings) == "__FAIL__" \in DOMAIN bindings

\* GetBinding's second result: is the variable a key of the map
HasBinding(variable, bindings) == variable \in DOMAIN bindings

\* GetBinding's first result (nil for a missing key)
GetBinding(variable, bindings) ==
    IF variable \in DOMAIN bindings THEN bindings[variable] ELSE Nil

ExtendBindings(variable, value, bindings) ==
    IF IsFail(bindings) THEN Fail
    ELSE (variable :> value) @@ bindings

Lookup(variable, bindings) ==
    IF variable \in DOMAIN bindings THEN bindings[variable] ELSE Nil

(***************************************************************************)
(* The outcome of a call that returns a Binding: the binding, or a panic.   *)
(***************************************************************************)
Ret(bindings) == [panic |-> FALSE, b |-> bindings]

Panic == [panic |-> TRUE]

MatchVariable(pattern, input, bindings) ==
    IF IsFail(bindings) THEN Ret(Fail)
    ELSE IF ~IsSymbol(pattern) \/ ~IsVariable(pattern) THEN Ret(Fail)
    ELSE IF HasBinding(pattern.name, bindings)
         THEN LET eq == Equal(GetBinding(pattern.name, bindings), input) IN
              IF eq = "panic" THEN Panic
              ELSE IF eq = "true" THEN Ret(bindings)
              ELSE Ret(Fail)
    ELSE Ret(ExtendBindings(pattern.name, input, bindings))

(***************************************************************************)
(* Predicates and condition evaluation.                                     *)
(***************************************************************************)
\* Go's remainder truncates toward zero: (-3) % 2 = -1
GoRem(n, m) == IF n >= 0 THEN n % m ELSE -((-n) % m)

\* TestPredicate with numberp testing for int64 alone
TestPredicateIntOnly(predicate, value) ==
    CASE predicate = "numberp" -> value.t = "int"
      [] predicate = "symbolp" -> IsSymbol(value)
      [] predicate = "atomp" -> IsAtom(value)
      [] predicate = "oddp" -> value.t = "int" /\ GoRem(value.i, 2) = 1
      [] predicate = "evenp" -> value.t = "int" /\ GoRem(value.i, 2) = 0
      [] OTHER -> FALSE

TestPredicate(predicate, value) ==
    CASE predicate = "numberp" -> value.t \in {"int", "float"}
      [] predicate = "symbolp" -> IsSymbol(value)
      [] predicate = "atomp" -> IsAtom(value)
      [] predicate = "oddp" -> value.t = "int" /\ GoRem(value.i, 2) = 1
      [] predicate = "evenp" -> value.t = "int" /\ GoRem(value.i, 2) = 0
      [] OTHER -> FALSE

(***************************************************************************)
(* strconv.ParseFloat(val, 64) on the decimal strings the model uses: an    *)
(* optional sign, digits, and an optional fraction "." with digits.  The    *)
(* value is counted in halves, so the fraction digits the model uses are    *)
(* none, "0" or "5".  A string with any other character does not parse;     *)
(* the model's strings hold none of Go's other float spellings (exponents,  *)
(* hexadecimal, inf, nan).                                                  *)
(***************************************************************************)
IsDigit(c) == c \in {"0", "1", "2", "3", "4", "5", "6", "7", "8", "9"}

DigitVal(c) == CHOOSE d \in 0..9 : ToString(d) = c

AllDigits(s) == \A k \in 1..Len(s) : IsDigit(SubSeq(s, k, k))

RECURSIVE DigitsVal(_)
DigitsVal(s) ==
    IF Len(s) = 0 THEN 0
    ELSE 10 * DigitsVal(SubSeq(s, 1, Len(s) - 1)) + DigitVal(SubSeq(s, Len(s), Len(s)))

\* the text after an optional sign
Unsigned(s) == IF Len(s) > 0 /\ Head(s) \in {"+", "-"} THEN Tail(s) ELSE s

DotAt(s) == {k \in 1..Len(s) : SubSeq(s, k, k) = "."}

IntPart(s) ==
    IF DotAt(s) = {} THEN s ELSE SubSeq(s, 1, (CHOOSE k \in DotAt(s) : TRUE) - 1)

FracPart(s) ==
    IF DotAt(s) = {} THEN "" ELSE SubSeq(s, (CHOOSE k \in DotAt(s) : TRUE) + 1, Len(s))

ParseFloatOk(s) ==
    LET u == Unsigned(s) IN
    /\ Cardinality(DotAt(u)) <= 1
    /\ AllDigits(IntPart(u))
    /\ AllDigits(FracPart(u))
    /\ Len(IntPart(u)) + Len(FracPart(u)) > 0

\* the parsed value in halves
ParseFloatVal(s) ==
    LET u == Unsigned(s)
        halves == 2 * DigitsVal(IntPart(u))
                    + (IF FracPart(u) = "5" THEN 1 ELSE 0)
    IN  IF Len(s) > 0 /\ Head(s) = "-" THEN -halves ELSE halves

\* GetNumber's second result
GetNumberOk(expr) ==
    \/ expr.t \in {"int", "float"}
    \/ expr.t = "str" /\ ParseFloatOk(expr.s)

\* GetNumber's first result, in halves
GetNumber(expr) ==
    CASE expr.t = "int" -> 2 * expr.i
      [] expr.t = "float" -> expr.h
      [] expr.t = "str" /\ ParseFloatOk(expr.s) -> ParseFloatVal(expr.s)
      [] OTHER -> 0

ResolveValue(expr, bindings) ==
    IF IsVariable(expr) /\ Lookup(expr.name, bindings) # Nil
    THEN Lookup(expr.name, bindings)
    ELSE expr

CompareNumbers(left, right, bindings, op) ==
    LET leftVal == ResolveValue(left, bindings)
        rightVal == ResolveValue(right, bindings)
    IN  IF ~GetNumberOk(leftVal) \/ ~GetNumberOk(rightVal) THEN FALSE
        ELSE CASE op = ">" -> GetNumber(leftVal) > GetNumber(rightVal)
               [] op = "<" -> GetNumber(leftVal) < GetNumber(rightVal)
               [] op = "=" -> GetNumber(leftVal) = GetNumber(rightVal)
               [] OTHER -> FALSE

EvaluateCondition(condition, bindings) ==
    IF IsCons(condition) /\ IsSymbol(condition.car)
    THEN LET args == ConsToSlice(condition.cdr) IN
         /\ condition.car.name \in {">", "<", "="}
         /\ Len(args) = 2
         /\ CompareNumbers(args[1], args[2], bindings, condition.car.name)
    ELSE FALSE

(***************************************************************************)
(* The matcher.  PatMatch and the operator matchers call one another.       *)
(***************************************************************************)
RECURSIVE PatMatch(_, _, _)
RECURSIVE MatchAndLoop(_, _, _)
RECURSIVE MatchOrLoop(_, _, _)
RECURSIVE MatchNotLoop(_, _, _)
RECURSIVE SegmentMatchLoop(_, _, _, _)

\* the loop of SegmentMatch, from segmentLen on: the first length whose
\* extension is not FAIL wins
SegmentMatchLoop(variable, inputList, bindings, segmentLen) ==
    IF segmentLen > Len(inputList) THEN Ret(Fail)
    ELSE LET segment == SliceToCons(SubSeq(inputList, 1, segmentLen))
             newBindings == ExtendBindings(variable, segment, bindings)
         IN  IF ~IsFail(newBindings) THEN Ret(newBindings)
             ELSE SegmentMatchLoop(variable, inputList, bindings, segmentLen + 1)

SegmentMatch(pattern, input, bindings, minLength) ==
    IF ~IsCons(pattern) THEN Ret(Fail)
    ELSE IF ~IsCons(pattern.cdr) THEN Ret(Fail)
    ELSE IF ~IsSymbol(pattern.cdr.car) THEN Ret(Fail)
    ELSE SegmentMatchLoop(pattern.cdr.car.name, ConsToSlice(input), bindings, minLength)

SegmentMatchZeroOrOne(pattern, input, bindings) ==
    IF ~IsCons(pattern) THEN Ret(Fail)
    ELSE IF ~IsCons(pattern.cdr) THEN Ret(Fail)
    ELSE IF ~IsSymbol(pattern.cdr.car) THEN Ret(Fail)
    ELSE LET variable == pattern.cdr.car.name
             emptyBindings == ExtendBindings(variable, Nil, bindings)
         IN  IF ~IsFail(emptyBindings) THEN Ret(emptyBindings)
             ELSE IF IsCons(input)
                     /\ ~IsFail(ExtendBindings(variable, input.car, bindings))
                  THEN Ret(ExtendBindings(variable, input.car, bindings))
             ELSE Ret(Fail)

SegmentMatchStar(pattern, input, bindings) == SegmentMatch(pattern, input, bindings, 0)

SegmentMatchPlus(pattern, input, bindings) == SegmentMatch(pattern, input, bindings, 1)

SegmentMatchQuestion(pattern, input, bindings) ==
    SegmentMatchZeroOrOne(pattern, input, bindings)

\* SegmentMatcher with segmentMatchTable: an operator name that is no key of
\* the table has no match function
SegmentMatcher(pattern, input, bindings) ==
    IF ~IsCons(pattern) THEN Ret(Fail)
    ELSE IF ~IsSymbol(pattern.car) THEN Ret(Fail)
    ELSE CASE pattern.car.name = "?*" -> SegmentMatchStar(pattern, input, bindings)
           [] pattern.car.name = "?+" -> SegmentMatchPlus(pattern, input, bindings)
           [] pattern.car.name = "??" -> SegmentMatchQuestion(pattern, input, bindings)
           [] OTHER -> Ret(Fail)

MatchIs(pattern, input, bindings) ==
    IF ~IsCons(pattern) THEN Ret(Fail)
    ELSE LET args == ConsToSlice(pattern.cdr) IN
         IF Len(args) # 2 THEN Ret(Fail)
         ELSE IF ~IsSymbol(args[1]) THEN Ret(Fail)
         ELSE IF ~IsSymbol(args[2]) THEN Ret(Fail)
         ELSE IF TestPredicate(args[2].name, input)
              THEN Ret(ExtendBindings(args[1].name, input, bindings))
         ELSE Ret(Fail)

\* the loop of MatchAnd over the remaining patterns
MatchAndLoop(patterns, input, currentBindings) ==
    IF Len(patterns) = 0 THEN Ret(currentBindings)
    ELSE LET r == PatMatch(Head(patterns), input, currentBindings) IN
         IF r.panic THEN Panic
         ELSE IF IsFail(r.b) THEN Ret(Fail)
         ELSE MatchAndLoop(Tail(patterns), input, r.b)

MatchAnd(pattern, input, bindings) ==
    IF ~IsCons(pattern) THEN Ret(Fail)
    ELSE MatchAndLoop(ConsToSlice(pattern.cdr), input, bindings)

\* the loop of MatchOr over the remaining patterns
MatchOrLoop(patterns, input, bindings) ==
    IF Len(patterns) = 0 THEN Ret(Fail)
    ELSE LET result == PatMatch(Head(patterns), input, bindings) IN
         IF result.panic THEN Panic
         ELSE IF ~IsFail(result.b) THEN result
         ELSE MatchOrLoop(Tail(patterns), input, bindings)

MatchOr(pattern, input, bindings) ==
    IF ~IsCons(pattern) THEN Ret(Fail)
    ELSE MatchOrLoop(ConsToSlice(pattern.cdr), input, bindings)

\* the loop of MatchNot over the remaining patterns
MatchNotLoop(patterns, input, bindings) ==
    IF Len(patterns) = 0 THEN Ret(bindings)
    ELSE LET result == PatMatch(Head(patterns), input, bindings) IN
         IF result.panic THEN Panic
         ELSE IF ~IsFail(result.b) THEN Ret(Fail)
         ELSE MatchNotLoop(Tail(patterns), input, bindings)

MatchNot(pattern, input, bindings) ==
    IF ~IsCons(pattern) THEN Ret(Fail)
    ELSE MatchNotLoop(ConsToSlice(pattern.cdr), input, bindings)

MatchIf(pattern, input, bindings) ==
    IF ~IsCons(pattern) THEN Ret(Fail)
    ELSE LET args == ConsToSlice(pattern.cdr) IN
         IF Len(args) # 1 THEN Ret(Fail)
         ELSE IF EvaluateCondition(args[1], bindings) THEN Ret(bindings)
         ELSE Ret(Fail)

\* SingleMatcher with singleMatchTable
SingleMatcher(pattern, input, bindings) ==
    IF ~IsCons(pattern) THEN Ret(Fail)
    ELSE IF ~IsSymbol(pattern.car) THEN Ret(Fail)
    ELSE CASE pattern.car.name = "?is" -> MatchIs(pattern, input, bindings)
           [] pattern.car.name = "?and" -> MatchAnd(pattern, input, bindings)
           [] pattern.car.name = "?or" -> MatchOr(pattern, input, bindings)
           [] pattern.car.name = "?not" -> MatchNot(pattern, input, bindings)
           [] pattern.car.name = "?if" -> MatchIf(pattern, input, bindings)
           [] OTHER -> Ret(Fail)

\* the compound rule of PatMatch: both pattern and input are Cons
PatMatchCompound(pattern, input, bindings) ==
    LET firstMatch == PatMatch(pattern.car, input.car, bindings) IN
    IF firstMatch.panic THEN Panic
    ELSE IF IsFail(firstMatch.b) THEN Ret(Fail)
    ELSE IF pattern.cdr = Nil /\ input.cdr = Nil THEN firstMatch
    ELSE IF pattern.cdr = Nil \/ input.cdr = Nil THEN Ret(Fail)
    ELSE PatMatch(pattern.cdr, input.cdr, firstMatch.b)

\* PatMatch with the FAIL test made after the variable and exact-match rules
PatMatchFailTestLate(pattern, input, bindings) ==
    IF IsVariable(pattern) /\ ~IsFail(bindings)
    THEN MatchVariable(pattern, input, bindings)
    ELSE LET eq == Equal(pattern, input) IN
         IF eq = "panic" THEN Panic
         ELSE IF eq = "true" THEN Ret(bindings)
         ELSE IF IsFail(bindings) THEN Ret(Fail)
         ELSE IF IsSegmentPattern(pattern) THEN SegmentMatcher(pattern, input, bindings)
         ELSE IF IsSinglePattern(pattern) THEN SingleMatcher(pattern, input, bindings)
         ELSE IF IsCons(pattern) /\ IsCons(input)
              THEN PatMatchCompound(pattern, input, bindings)
         ELSE Ret(Fail)

PatMatch(pattern, input, bindings) ==
    IF IsFail(bindings) THEN Ret(Fail)
    ELSE IF IsVariable(pattern) THEN MatchVariable(pattern, input, bindings)
    ELSE LET eq == Equal(pattern, input) IN
         IF eq = "panic" THEN Panic
         ELSE IF eq = "true" THEN Ret(bindings)
         ELSE IF IsSegmentPattern(pattern) THEN SegmentMatcher(pattern, input, bindings)
         ELSE IF IsSinglePattern(pattern) THEN SingleMatcher(pattern, input, bindings)
         ELSE IF IsCons(pattern) /\ IsCons(input)
              THEN PatMatchCompound(pattern, input, bindings)
         ELSE Ret(Fail)

(***************************************************************************)
(* The expressions and bindings the calls are drawn from.  Every one is a   *)
(* value the textual parser produces (symbols, atoms, proper lists, the     *)
(* empty list as nil, lists holding the empty list) or, for the bindings,   *)
(* a value an earlier match returns.                                        *)
(***************************************************************************)
List(elements) == SliceToCons(elements)

SeqsUpTo(S, n) == UNION {[1..k -> S] : k \in 0..n}

Ints == {AtomInt(i) : i \in (-MaxInt)..MaxInt}

Floats == {AtomFloat(3), AtomFloat(4)}

Strs == {AtomStr("a"), AtomStr("2"), AtomStr("1.5")}

Syms == {Symbol("a"), Symbol("b")}

X == Symbol("?x")

Y == Symbol("?y")

Is(v, pred) == List(<<Symbol("?is"), v, Symbol(pred)>>)

Op(name, args) == Cons(Symbol(name), List(args))

DataElems == {Nil, Symbol("a"), AtomInt(1), AtomInt(MaxInt)}

DataLists == {List(s) : s \in SeqsUpTo(DataElems, MaxLen) \ {<< >>}}

DataLeaves == {Nil} \cup Syms \cup Ints \cup Floats \cup Strs

\* the inputs of matcher_test.go
TestData ==
    { Symbol("hello"), Symbol("world"), Symbol("<"), Symbol("+"),
      List(<<Symbol("a"), Symbol("a")>>),
      List(<<Symbol("a"), Symbol("b")>>),
      List(<<Symbol("a"), Symbol("b"), Symbol("a")>>),
      List(<<Symbol("a"), Symbol("b"), Symbol("c")>>),
      List(<<Symbol("a"), Symbol("b"), Symbol("d")>>),
      List(<<Symbol("a"), List(<<Symbol("b"), Symbol("c")>>), Symbol("d")>>),
      List(<<AtomInt(3), Symbol("<"), AtomInt(4)>>),
      List(<<AtomInt(3), Symbol("+"), AtomInt(4)>>),
      List(<<AtomInt(3), AtomInt(4)>>),
      List(<<AtomInt(3), AtomInt(3)>>),
      AtomInt(42) }

Data == DataLeaves \cup DataLists \cup TestData

\* values a variable is bound to by an earlier match
BoundValues ==
    {Nil, Symbol("a"), AtomInt(1), AtomInt(MaxInt), AtomStr("2"), List(<<Nil>>)}

\* FAIL as callers hold it: the shared Fail value, and the map the matcher
\* returns for (?is __FAIL__ numberp), which holds the sentinel key too
FailBindings == {Fail, ("__FAIL__" :> AtomInt(1))}

OneBound == {ExtendBindings("?x", v, NoBindings) : v \in BoundValues}

TwoBound ==
    {ExtendBindings("?y", w, ExtendBindings("?x", v, NoBindings)) :
        v \in {Symbol("a"), AtomInt(1), AtomInt(MaxInt)}, w \in {Symbol("a"), AtomInt(1)}}

Bindings == {NoBindings} \cup FailBindings \cup OneBound \cup TwoBound

\* plain patterns: leaves, variables and lists of them
PatElems == {Nil, X, Y, Symbol("a"), AtomInt(1)}

PlainPatterns ==
    PatElems \cup {Symbol("b"), Symbol("hello"), Symbol("?is")}
    \cup {List(s) : s \in SeqsUpTo(PatElems, MaxLen) \ {<< >>}}
    \cup { List(<<X, Y, X>>),
           List(<<Symbol("a"), X, Symbol("c")>>),
           List(<<Symbol("a"), List(<<X, Y>>), Symbol("d")>>),
           List(<<Symbol("a"), List(<<Symbol("b"), X>>), Symbol("d")>>),
           List(<<Symbol("a"), Symbol("?not"), Symbol("b")>>),
           List(<<Symbol("a"), Symbol("?is"), X, Symbol("symbolp")>>) }

\* (?is V P), well formed and malformed
Predicates == {"numberp", "symbolp", "atomp", "oddp", "evenp", "nosuchp"}

IsPatterns ==
    {Is(v, pred) : v \in {X, Y, Symbol("a"), Symbol("__FAIL__")}, pred \in Predicates}
    \cup { List(<<Symbol("?is"), X>>),
           List(<<Symbol("?is"), X, Symbol("numberp"), Symbol("a")>>),
           List(<<Symbol("?is"), Nil, Symbol("numberp")>>),
           List(<<Symbol("?is"), AtomInt(1), Symbol("numberp")>>),
           List(<<Symbol("?is"), X, Nil>>),
           List(<<Symbol("?is"), X, AtomStr("numberp")>>) }

\* (?and ...), (?or ...), (?not ...) over these sub-patterns
SubPatterns ==
    { X, Symbol("a"), Nil, Is(X, "numberp"), Is(Y, "symbolp"),
      Op("?not", <<X>>) }

LogicPatterns ==
    {Op(name, args) : name \in {"?and", "?or", "?not"},
                      args \in SeqsUpTo(SubPatterns, MaxArgs)}
    \cup { Op("?and", <<Is(Symbol("?n"), "numberp"), Is(Symbol("?n"), "oddp")>>),
           Op("?or", <<Symbol("<"), Symbol("="), Symbol(">")>>),
           Op("?not", <<Symbol("hello")>>) }

LogicData ==
    {Nil, Symbol("a"), Symbol("b"), Symbol("hello"), Symbol("world"),
     Symbol("<"), Symbol("="), Symbol(">"), Symbol("+"),
     AtomInt(1), AtomInt(MaxInt), AtomInt(-1), AtomInt(3), AtomInt(4),
     Symbol("x"), AtomStr("a"),
     List(<<Symbol("a")>>), List(<<Nil>>), List(<<Symbol("?not"), X>>)}

LogicBindings ==
    {NoBindings, Fail}
    \cup {ExtendBindings("?x", v, NoBindings) : v \in {Nil, Symbol("a"), AtomInt(1)}}
    \cup {ExtendBindings("?y", Symbol("a"), ExtendBindings("?x", AtomInt(1), NoBindings))}

\* (?if cond), well formed and malformed
CondArgs ==
    { X, Y, Nil, Symbol("a"), AtomInt(1), AtomInt(MaxInt), AtomFloat(3),
      AtomStr("2"), AtomStr("a") }

Conditions ==
    {Op(name, <<l, r>>) : name \in {">", "<", "=", "+"}, l \in CondArgs, r \in CondArgs}
    \cup { Nil, Symbol("a"), AtomInt(1), X,
           Op(">", << >>), Op(">", <<AtomInt(MaxInt)>>),
           Op(">", <<AtomInt(MaxInt), AtomInt(1), AtomInt(0)>>),
           Cons(AtomInt(1), List(<<AtomInt(MaxInt), AtomInt(1)>>)),
           Cons(Nil, List(<<AtomInt(MaxInt), AtomInt(1)>>)) }

IfPatterns ==
    {Op("?if", <<c>>) : c \in Conditions}
    \cup { Op("?if", << >>),
           Op("?if", <<Op(">", <<AtomInt(MaxInt), AtomInt(1)>>),
                       Op(">", <<AtomInt(MaxInt), AtomInt(1)>>)>>) }

IfData ==
    { Nil, Symbol("a"), AtomInt(1),
      Op("?if", <<Op(">", <<AtomInt(MaxInt), AtomInt(1)>>)>>),
      Op("?if", <<Op(">", <<AtomInt(1), AtomInt(1)>>)>>) }

\* segment forms, alone and as list elements
Segment(name, v) == List(<<Symbol(name), v>>)

SegmentPatterns ==
    {Segment(name, v) : name \in {"?*", "?+", "??", "?*x"},
                        v \in {X, Symbol("a"), Symbol("__FAIL__"), Nil, AtomInt(1)}}
    \cup { List(<<Symbol("?*")>>),
           List(<<Segment("?*", X), Symbol("b")>>),
           List(<<Segment("?+", X), Symbol("b")>>),
           List(<<X, Segment("?*", X)>>),
           List(<<X, Segment("??", X)>>) }

\* lists with operator forms as elements (matcher_test.go and guide)
MixedPatterns ==
    { List(<<X, Op("?or", <<Symbol("<"), Symbol("="), Symbol(">")>>), Y>>),
      List(<<X, Op("?not", <<X>>)>>),
      List(<<X, Is(X, "numberp")>>),
      List(<<X, Is(X, "symbolp")>>),
      List(<<X, Is(Y, "numberp")>>),
      List(<<X, Y, Op("?if", <<Op(">", <<X, Y>>)>>)>>),
      List(<<X, Op("?and", <<Y, Is(Y, "numberp")>>)>>) }

(***************************************************************************)
(* The state: the arguments of one call of PatMatch and its outcome.        *)
(***************************************************************************)
VARIABLES pattern, input, bindings, result, pc,
          matches, includeAnonymous, files, fileIdx, totalMatches, stdout, exitCode,
          text, parsed, shown, shownAgain, reparsed,
          elements, list, slice,
          treeNode, treeExpr,
          variant, currentFile, currentLanguage, fileBytes, lispAST, msg,
          heap, handle, call,
          stack, frame

\* the arguments and the outcome of a call of PatMatch or collectMatches
matchVars == <<pattern, input, bindings, result, matches>>

\* a run of the pattern command
cmdVars == <<includeAnonymous, files, fileIdx, totalMatches, stdout, exitCode>>

\* a text, its parse, the display of the parse (or of bindings, once and
\* again) and the parse of the display
parseVars == <<text, parsed, shown, shownAgain, reparsed>>

\* a slice, the list built from it and the slice read back
listVars == <<elements, list, slice>>

\* a parse-tree node and the expression the adapter makes of it
adapterVars == <<treeNode, treeExpr>>

\* the fields of the PatternEvaluator of the REPL, the build of the REPL that
\* runs, and the last message a command returned
replVars == <<variant, currentFile, currentLanguage, fileBytes, lispAST, msg>>

\* the Binding maps allocated so far, the last call made on them and the map
\* it returned
heapVars == <<heap, handle, call>>

\* the calls of PatMatch that are still to be made, and the call made last
termVars == <<stack, frame>>

vars == <<matchVars, cmdVars, parseVars, listVars, adapterVars, replVars, heapVars,
          termVars, pc>>

\* the value of a variable that takes no part in the run at hand
None == [t |-> "none"]

NoCmd ==
    /\ includeAnonymous = None
    /\ files = None /\ fileIdx = None /\ totalMatches = None
    /\ stdout = None /\ exitCode = None

NoParse ==
    /\ text = None /\ parsed = None /\ shown = None /\ shownAgain = None
    /\ reparsed = None

NoList == elements = None /\ list = None /\ slice = None

NoAdapter == treeNode = None /\ treeExpr = None

NoRepl ==
    /\ variant = None /\ currentFile = None /\ currentLanguage = None
    /\ fileBytes = None /\ lispAST = None /\ msg = None

NoHeap == heap = None /\ handle = None /\ call = None

NoTerm == stack = None /\ frame = None

\* a caller holds a pattern, an input and bindings; no call is made yet
Call(P, D, B) ==
    /\ pattern \in P
    /\ input \in D
    /\ bindings \in B

\* the input is the very expression the pattern is
SelfCall(P, B) ==
    /\ pattern \in P
    /\ input = pattern
    /\ bindings \in B

Init ==
    /\ \/ Call(IsPatterns, Data, Bindings)
       \/ Call(MixedPatterns, Data, LogicBindings)
       \/ Call(SegmentPatterns, Data, Bindings)
       \/ Call(LogicPatterns, LogicData, LogicBindings)
       \/ Call(IfPatterns, IfData, Bindings)
       \/ Call(PlainPatterns, Data, Bindings)
       \/ SelfCall(IsPatterns \cup SegmentPatterns \cup IfPatterns \cup PlainPatterns,
                   Bindings)
       \/ SelfCall(MixedPatterns \cup LogicPatterns, LogicBindings)
    /\ result = Ret(NoBindings)
    /\ matches = None
    /\ NoCmd /\ NoParse /\ NoList /\ NoAdapter /\ NoRepl /\ NoHeap /\ NoTerm
    /\ pc = "ready"

\* result := PatMatch(pattern, input, bindings)
Match ==
    /\ pc = "ready"
    /\ result' = PatMatch(pattern, input, bindings)
    /\ pc' = "done"
    /\ UNCHANGED <<pattern, input, bindings, matches>>
    /\ UNCHANGED <<cmdVars, parseVars, listVars, adapterVars, replVars, heapVars, termVars>>

Next == Match

Spec == Init /\ [][Next]_vars

(***************************************************************************)
(* Notions the claims are stated with.                                      *)
(***************************************************************************)
\* the call has returned
Done == pc = "done"

\* the call returned bindings that are not FAIL
Succeeded == ~result.panic /\ ~IsFail(result.b)

\* the call returned FAIL
Failed == ~result.panic /\ IsFail(result.b)

\* a returned outcome r is a success / a FAIL
IsSuccess(r) == ~r.panic /\ ~IsFail(r.b)

IsFailure(r) == ~r.panic /\ IsFail(r.b)

\* structural equality of the data model: same variant, same payload,
\* recursively; the empty list equals the empty list
StructEq(e1, e2) == e1 = e2

\* the mapping b extended with variable |-> value
Extended(b, variable, value) == (variable :> value) @@ b

\* r keeps every entry of b
Extends(r, b) == \A v \in DOMAIN b : v \in DOMAIN r /\ r[v] = b[v]

(***************************************************************************)
(* C1.  When the pattern is a variable ?v and the incoming bindings B are   *)
(* not FAIL: PatMatch returns B extended with ?v |-> input if ?v is unbound *)
(* in B, B unchanged if ?v is bound to a value structurally equal to the    *)
(* input, and FAIL otherwise.  So (?x ?x) matches (a a) but not (a b), and  *)
(* (?x ?y ?x) gives exactly ?x = a, ?y = b on (a b a) and FAIL on (a b c).  *)
(***************************************************************************)
C1_VariableRule ==
    /\ (Done /\ IsVariable(pattern) /\ ~IsFail(bindings)) =>
          result = IF pattern.name \notin DOMAIN bindings
                   THEN Ret(Extended(bindings, pattern.name, input))
                   ELSE IF StructEq(bindings[pattern.name], input)
                        THEN Ret(bindings)
                        ELSE Ret(Fail)
    /\ (Done /\ bindings = NoBindings /\ pattern = List(<<X, X>>)) =>
          /\ input = List(<<Symbol("a"), Symbol("a")>>) => Succeeded
          /\ input = List(<<Symbol("a"), Symbol("b")>>) => Failed
    /\ (Done /\ bindings = NoBindings /\ pattern = List(<<X, Y, X>>)) =>
          /\ input = List(<<Symbol("a"), Symbol("b"), Symbol("a")>>) =>
                result = Ret(("?x" :> Symbol("a")) @@ ("?y" :> Symbol("b")))
          /\ input = List(<<Symbol("a"), Symbol("b"), Symbol("c")>>) => Failed

(***************************************************************************)
(* C2.  A bound variable is never rebound to a structurally different       *)
(* value, in any binding position: a plain variable, the variable slot of   *)
(* (?is V P), the variable of a segment form.  A match that meets a second  *)
(* occurrence of a bound variable succeeds iff the second occurrence binds  *)
(* a structurally equal value, and an attempt to bind a bound variable to   *)
(* a different value makes the whole match FAIL.                            *)
(***************************************************************************)
\* q is a binding position: ?v, (?is ?v P), (?* ?v), (?+ ?v) or (?? ?v)
IsBindingForm(q) ==
    \/ IsVariable(q)
    \/ /\ IsCons(q) /\ IsSymbol(q.car) /\ IsCons(q.cdr) /\ IsVariable(q.cdr.car)
       /\ \/ q.car.name = "?is" /\ Len(ConsToSlice(q)) = 3 /\ IsSymbol(q.cdr.cdr.car)
          \/ q.car.name \in {"?*", "?+", "??"} /\ Len(ConsToSlice(q)) = 2

\* the variable a binding position binds
BoundVariable(q) == IF IsVariable(q) THEN q.name ELSE q.cdr.car.name

\* what the binding position q binds its variable to on input d when the
\* variable is still free
BindsAlone(q, d) == PatMatch(q, d, NoBindings)

C2_NeverRebound ==
    \* a binding position whose variable is bound already
    /\ (Done /\ ~IsFail(bindings) /\ IsBindingForm(pattern)
             /\ ~StructEq(pattern, input)
             /\ BoundVariable(pattern) \in DOMAIN bindings) =>
          LET v == BoundVariable(pattern)
              alone == BindsAlone(pattern, input)
          IN  /\ Succeeded => StructEq(result.b[v], bindings[v])
              /\ (IsSuccess(alone) /\ ~StructEq(alone.b[v], bindings[v])) => Failed
              /\ (IsSuccess(alone) /\ StructEq(alone.b[v], bindings[v])) => Succeeded
    \* a pattern (?v q) that references ?v twice
    /\ (Done /\ bindings = NoBindings /\ IsCons(pattern) /\ IsVariable(pattern.car)
             /\ IsCons(pattern.cdr) /\ pattern.cdr.cdr = Nil
             /\ IsBindingForm(pattern.cdr.car)
             /\ BoundVariable(pattern.cdr.car) = pattern.car.name
             /\ IsCons(input) /\ IsCons(input.cdr) /\ input.cdr.cdr = Nil
             /\ ~StructEq(pattern, input)) =>
          LET alone == BindsAlone(pattern.cdr.car, input.cdr.car) IN
          Succeeded <=> /\ IsSuccess(alone)
                        /\ StructEq(alone.b[pattern.car.name], input.car)

(***************************************************************************)
(* C3.  A pattern list (p1 ... pn) that is no operator or segment form,     *)
(* against an input list (d1 ... dm) not structurally equal to it, is       *)
(* matched element by element under the bindings produced so far: FAIL as   *)
(* soon as an element fails, FAIL when n # m, the accumulated bindings when *)
(* both lists run out together.  Nested lists are matched recursively.      *)
(***************************************************************************)
RECURSIVE ElementwiseMatch(_, _, _)
ElementwiseMatch(ps, ds, b) ==
    IF Len(ps) = 0 /\ Len(ds) = 0 THEN Ret(b)
    ELSE IF Len(ps) = 0 \/ Len(ds) = 0 THEN Ret(Fail)
    ELSE LET r == PatMatch(Head(ps), Head(ds), b) IN
         IF r.panic THEN Panic
         ELSE IF IsFail(r.b) THEN Ret(Fail)
         ELSE ElementwiseMatch(Tail(ps), Tail(ds), r.b)

C3_ListRule ==
    /\ (Done /\ ~IsFail(bindings)
             /\ IsCons(pattern) /\ IsList(pattern) /\ IsCons(input) /\ IsList(input)
             /\ ~StructEq(pattern, input)
             /\ ~IsSegmentPattern(pattern) /\ ~IsSinglePattern(pattern)) =>
          /\ ~result.panic
          /\ result = ElementwiseMatch(ConsToSlice(pattern), ConsToSlice(input), bindings)
    /\ (Done /\ bindings = NoBindings
             /\ pattern = List(<<Symbol("a"), List(<<X, Y>>), Symbol("d")>>)
             /\ input = List(<<Symbol("a"), List(<<Symbol("b"), Symbol("c")>>), Symbol("d")>>)) =>
          result = Ret(("?x" :> Symbol("b")) @@ ("?y" :> Symbol("c")))
    /\ (Done /\ bindings = NoBindings
             /\ pattern = List(<<Symbol("a"), X, Symbol("c")>>)) =>
          /\ input = List(<<Symbol("a"), Symbol("b"), Symbol("c")>>) => Succeeded
          /\ input = List(<<Symbol("a"), Symbol("b"), Symbol("d")>>) => Failed

(***************************************************************************)
(* C4.  Every non-FAIL result is an extension of its input bindings: it     *)
(* holds every variable of B, bound to the value it has in B.               *)
(***************************************************************************)
C4_ResultExtendsInput ==
    (Done /\ ~IsFail(bindings) /\ Succeeded) => Extends(result.b, bindings)

(***************************************************************************)
(* C5.  PatMatch(P, D, FAIL) is FAIL for every P and D, the empty list      *)
(* included: FAIL is tested before every other rule.  And once the element  *)
(* match of the list rule, or a sub-pattern of ?and, has returned FAIL, the *)
(* match returns FAIL.                                                      *)
(***************************************************************************)
\* dispatch reaches the operator and list rules: the bindings are not FAIL,
\* the pattern is no variable and is not equal to the input
PastExactMatch ==
    ~IsFail(bindings) /\ ~IsVariable(pattern) /\ Equal(pattern, input) = "false"

HoldsOn(pred, x) ==
    \/ pred = "numberp" /\ x.t \in {"int", "float"}
    \/ pred = "symbolp" /\ x.t = "sym"
    \/ pred = "atomp" /\ x.t \in {"int", "float", "str"}

\* the pattern is (?is V P), V a variable, P one of the three predicates
\* above or a name that is no built-in predicate
IsForm ==
    /\ IsCons(pattern) /\ pattern.car = Symbol("?is")
    /\ IsList(pattern) /\ Len(ConsToSlice(pattern)) = 3
    /\ IsVariable(ConsToSlice(pattern)[2])
    /\ IsSymbol(ConsToSlice(pattern)[3])
    /\ ConsToSlice(pattern)[3].name \notin {"oddp", "evenp"}

IsOutcome ==
    LET v == ConsToSlice(pattern)[2].name
        pred == ConsToSlice(pattern)[3].name
    IN  /\ Succeeded <=> HoldsOn(pred, input)
        /\ Succeeded => (v \in DOMAIN result.b /\ StructEq(result.b[v], input))
        /\ ~HoldsOn(pred, input) => Failed

\* the claim as written: for every input
C6_IsRule == (Done /\ ~IsFail(bindings) /\ IsForm) => IsOutcome

\* C6 as amended: for every input that is not structurally equal to the
\* pattern (?is V P) itself; on such an input the exact-match rule comes
\* first and returns the bindings unchanged
C6_IsRuleAmended ==
    /\ (Done /\ ~IsFail(bindings) /\ IsForm /\ ~StructEq(pattern, input)) => IsOutcome
    /\ (Done /\ ~IsFail(bindings) /\ IsForm /\ StructEq(pattern, input)) =>
          result = Ret(bindings)
    /\ (Done /\ bindings = NoBindings /\ pattern = Is(X, "numberp")) =>
          /\ input = AtomInt(42) => result = Ret("?x" :> AtomInt(42))
          /\ input = Symbol("hello") => Failed
    /\ (Done /\ bindings = NoBindings /\ pattern = Is(X, "symbolp")) =>
          /\ input = Symbol("hello") => result = Ret("?x" :> Symbol("hello"))
          /\ input = AtomInt(42) => Failed

\* numberp holds on a float atom and ?x is bound to it
C6_Witness ==
    /\ Done /\ pattern = Is(X, "numberp") /\ input = AtomFloat(3)
    /\ bindings = NoBindings /\ result = Ret("?x" :> AtomFloat(3))

(***************************************************************************)
(* C7.  (?and p1 ... pn) threads the same input through p1, ..., pn from    *)
(* left to right, each under the bindings the previous one returned; it     *)
(* succeeds iff every sub-pattern matches in that chain, returns the last   *)
(* bindings, and returns FAIL as soon as one fails.  So                     *)
(* (?and (?is ?n numberp) (?is ?n oddp)) matches 3 with ?n = 3 and fails on *)
(* 4 and on x.                                                              *)
(***************************************************************************)
RECURSIVE AndChain(_, _, _)
AndChain(ps, x, b) ==
    IF Len(ps) = 0 THEN Ret(b)
    ELSE LET r == PatMatch(Head(ps), x, b) IN
         IF r.panic THEN Panic
         ELSE IF IsFail(r.b) THEN Ret(Fail)
         ELSE AndChain(Tail(ps), x, r.b)

OddNumber == Op("?and", <<Is(Symbol("?n"), "numberp"), Is(Symbol("?n"), "oddp")>>)

C7_AndRule ==
    /\ (Done /\ ~IsFail(bindings) /\ IsCons(pattern) /\ pattern.car = Symbol("?and")
             /\ IsList(pattern)) =>
          /\ ~result.panic
          /\ result = AndChain(ConsToSlice(pattern.cdr), input, bindings)
    /\ (Done /\ bindings = NoBindings /\ pattern = OddNumber) =>
          /\ input = AtomInt(3) => result = Ret("?n" :> AtomInt(3))
          /\ input = AtomInt(4) => Failed
          /\ input = Symbol("x") => Failed

(***************************************************************************)
(* C8.  (?or p1 ... pn) against x under B succeeds iff at least one pi      *)
(* matches x under B; the branches are tried left to right and the result   *)
(* is exactly what the leftmost matching branch returns; FAIL if none       *)
(* matches.  So (?or < = >) matches <, = and > but not +, and               *)
(* (?x (?or < = >) ?y) matches (3 < 4) with ?x = 3, ?y = 4 and fails on     *)
(* (3 + 4).                                                                 *)
(***************************************************************************)
\* the branches that match x under b
Matching(ps, x, b) == {k \in 1..Len(ps) : IsSuccess(PatMatch(ps[k], x, b))}

\* every branch returns bindings or FAIL
AllReturn(ps, x, b) == \A k \in 1..Len(ps) : ~PatMatch(ps[k], x, b).panic

Leftmost(S) == CHOOSE k \in S : \A j \in S : k <= j

Relational == Op("?or", <<Symbol("<"), Symbol("="), Symbol(">")>>)

C8_OrRule ==
    /\ (Done /\ ~IsFail(bindings) /\ IsCons(pattern) /\ pattern.car = Symbol("?or")
             /\ IsList(pattern)) =>
          LET ps == ConsToSlice(pattern.cdr) IN
          /\ ~result.panic
          /\ AllReturn(ps, input, bindings)
          /\ Succeeded <=> Matching(ps, input, bindings) # {}
          /\ Succeeded =>
                result = PatMatch(ps[Leftmost(Matching(ps, input, bindings))],
                                  input, bindings)
          /\ Matching(ps, input, bindings) = {} => Failed
    /\ (Done /\ bindings = NoBindings /\ pattern = Relational) =>
          /\ input \in {Symbol("<"), Symbol("="), Symbol(">")} => Succeeded
          /\ input = Symbol("+") => Failed
    /\ (Done /\ bindings = NoBindings /\ pattern = List(<<X, Relational, Y>>)) =>
          /\ input = List(<<AtomInt(3), Symbol("<"), AtomInt(4)>>) =>
                result = Ret(("?x" :> AtomInt(3)) @@ ("?y" :> AtomInt(4)))
          /\ input = List(<<AtomInt(3), Symbol("+"), AtomInt(4)>>) => Failed

(***************************************************************************)
(* C9.  (?not p1 ... pn) against x under B succeeds iff none of the pi      *)
(* matches x under B, and on success returns exactly B: bindings made while *)
(* trying the pi never leak.  So (?not hello) matches world with empty      *)
(* bindings and fails on hello, and (?x (?not ?x)) matches (3 4) but not    *)
(* (3 3).                                                                   *)
(***************************************************************************)
C9_NotRule ==
    /\ (Done /\ ~IsFail(bindings) /\ IsCons(pattern) /\ pattern.car = Symbol("?not")
             /\ IsList(pattern)) =>
          LET ps == ConsToSlice(pattern.cdr) IN
          /\ ~result.panic
          /\ AllReturn(ps, input, bindings)
          /\ Succeeded <=> Matching(ps, input, bindings) = {}
          /\ Succeeded => result = Ret(bindings)
          /\ Matching(ps, input, bindings) # {} => Failed
    /\ (Done /\ bindings = NoBindings /\ pattern = Op("?not", <<Symbol("hello")>>)) =>
          /\ input = Symbol("world") => result = Ret(NoBindings)
          /\ input = Symbol("hello") => Failed
    /\ (Done /\ bindings = NoBindings /\ pattern = List(<<X, Op("?not", <<X>>)>>)) =>
          /\ input = List(<<AtomInt(3), AtomInt(4)>>) => Succeeded
          /\ input = List(<<AtomInt(3), AtomInt(3)>>) => Failed

(***************************************************************************)
(* C10.  (?if cond) succeeds, returning the bindings unchanged, iff cond is *)
(* (> a b), (< a b) or (= a b), both arguments are numeric atoms (integer   *)
(* or float, integers widened to float) once variables are replaced by      *)
(* their values in the current bindings, and the comparison is true; every  *)
(* other condition shape (other operator, wrong number of arguments, an     *)
(* unbound variable, a non-numeric argument, a non-list condition, more     *)
(* than one condition) gives FAIL.                                          *)
(***************************************************************************)
\* an argument with a bound variable replaced by its value
Resolved(a, b) ==
    IF IsVariable(a) /\ a.name \in DOMAIN b THEN b[a.name] ELSE a

\* a numeric atom: an integer or a float
IsNumeric(a) == a.t \in {"int", "float"}

\* the value of a numeric atom, in halves
NumericValue(a) == IF a.t = "int" THEN 2 * a.i ELSE a.h

\* the condition of (?if cond) is a true comparison of two numeric atoms
CondTrue(pat, b) ==
    LET args == ConsToSlice(pat.cdr) IN
    /\ Len(args) = 1
    /\ IsCons(args[1]) /\ IsList(args[1])
    /\ Len(ConsToSlice(args[1])) = 3
    /\ LET c == ConsToSlice(args[1])
           l == Resolved(c[2], b)
           r == Resolved(c[3], b)
       IN  /\ c[1] \in {Symbol(">"), Symbol("<"), Symbol("=")}
           /\ IsNumeric(l) /\ IsNumeric(r)
           /\ \/ c[1] = Symbol(">") /\ NumericValue(l) > NumericValue(r)
              \/ c[1] = Symbol("<") /\ NumericValue(l) < NumericValue(r)
              \/ c[1] = Symbol("=") /\ NumericValue(l) = NumericValue(r)

C10_IfRule ==
    (Done /\ ~IsFail(bindings) /\ IsCons(pattern) /\ pattern.car = Symbol("?if")
          /\ IsList(pattern)) =>
       /\ ~result.panic
       /\ Succeeded <=> CondTrue(pattern, bindings)
       /\ Succeeded => result = Ret(bindings)
       /\ ~CondTrue(pattern, bindings) => Failed

(***************************************************************************)
(* C11.  A segment pattern (?* ?v) or (?+ ?v) that is the first element of  *)
(* a pattern list matched against an input list: segment lengths are tried  *)
(* from the minimum (0 for ?*, 1 for ?+) upward; for each length ?v is      *)
(* bound to the list of the consumed input prefix and the rest of the       *)
(* pattern list is matched against the remaining suffix; the first length   *)
(* whose continuation succeeds is accepted, and FAIL is returned if none    *)
(* does.  ((?* ?x) b) on (a b) succeeds with ?x = (a); a ?+ segment is      *)
(* never bound to the empty list.                                           *)
(***************************************************************************)
\* the pattern is a list whose first element is (?* ?v) or (?+ ?v), ?v not
\* yet bound, and the input is a non-empty list other than the pattern
SegmentInList ==
    /\ IsCons(pattern) /\ IsList(pattern)
    /\ IsCons(pattern.car) /\ IsSymbol(pattern.car.car)
    /\ pattern.car.car.name \in {"?*", "?+"}
    /\ IsCons(pattern.car.cdr) /\ IsVariable(pattern.car.cdr.car)
    /\ pattern.car.cdr.cdr = Nil
    /\ pattern.car.cdr.car.name \notin DOMAIN bindings
    /\ IsCons(input) /\ IsList(input)
    /\ input # pattern

MinLength(segment) == IF segment.car.name = "?*" THEN 0 ELSE 1

\* the continuation for a segment of length k: the rest of the pattern list
\* against the suffix, with the variable bound to the prefix
Continuation(rest, ds, b, variable, k) ==
    LET prefix == List(SubSeq(ds, 1, k))
        suffix == SubSeq(ds, k + 1, Len(ds))
        b1 == Extended(b, variable, prefix)
    IN  IF Len(rest) = 0
        THEN (IF Len(suffix) = 0 THEN Ret(b1) ELSE Ret(Fail))
        ELSE IF Len(suffix) = 0 THEN Ret(Fail)
        ELSE PatMatch(List(rest), List(suffix), b1)

AcceptedLengths(segment, rest, ds, b) ==
    {k \in MinLength(segment)..Len(ds) :
        IsSuccess(Continuation(rest, ds, b, segment.cdr.car.name, k))}

StarThenB == List(<<Segment("?*", X), Symbol("b")>>)

Malformed ==
    \/ /\ IsCons(pattern) /\ pattern.car = Symbol("?is") /\ IsList(pattern)
       /\ LET args == ConsToSlice(pattern.cdr) IN
          \/ Len(args) # 2
          \/ ~IsSymbol(args[1])
          \/ ~IsSymbol(args[2])
          \/ args[2].name \notin {"numberp", "symbolp", "atomp", "oddp", "evenp"}
    \/ /\ IsCons(pattern) /\ pattern.car = Symbol("?if") /\ IsList(pattern)
       /\ Len(ConsToSlice(pattern.cdr)) # 1
    \/ /\ IsSegmentPattern(pattern) /\ IsList(pattern)
       /\ \/ pattern.car.name \notin {"?*", "?+", "??"}
          \/ Len(ConsToSlice(pattern.cdr)) = 0
          \/ ~IsSymbol(pattern.cdr.car)

C12_Total ==
    /\ Done => ~result.panic
    /\ (Done /\ Malformed /\ input # pattern) => Failed

(***************************************************************************)
(* The search driver (collectMatches, walkExpressions).                     *)
(***************************************************************************)
\* walkExpressions descending into the cdr before the car
RECURSIVE walkExpressionsCdrFirst(_)
walkExpressionsCdrFirst(expr) ==
    IF expr = Nil THEN << >>
    ELSE IF IsCons(expr)
         THEN <<expr>> \o walkExpressionsCdrFirst(expr.cdr)
                       \o walkExpressionsCdrFirst(expr.car)
    ELSE <<expr>>

\* walkExpressions: the expressions fn is called on, in the order of the calls
RECURSIVE walkExpressions(_)
walkExpressions(expr) ==
    IF expr = Nil THEN << >>
    ELSE IF IsCons(expr)
         THEN <<expr>> \o walkExpressions(expr.car) \o walkExpressions(expr.cdr)
    ELSE <<expr>>

\* the callback of collectMatches run over the remaining expressions: calls is
\* the expressions PatMatch was called on so far, out the bindings appended;
\* a panic of PatMatch ends the walk
RECURSIVE CollectLoop(_, _, _, _)
CollectLoop(pat, todo, calls, out) ==
    IF Len(todo) = 0 THEN [panic |-> FALSE, calls |-> calls, out |-> out]
    ELSE LET b == PatMatch(pat, Head(todo), NoBindings) IN
         IF b.panic THEN [panic |-> TRUE, calls |-> Append(calls, Head(todo))]
         ELSE IF ~IsFail(b.b)
              THEN CollectLoop(pat, Tail(todo), Append(calls, Head(todo)),
                               Append(out, b.b))
         ELSE CollectLoop(pat, Tail(todo), Append(calls, Head(todo)), out)

collectMatches(pat, expr) == CollectLoop(pat, walkExpressions(expr), << >>, << >>)

\* nested data as the adapter and the parser build it
SearchElems ==
    { Symbol("a"), AtomInt(1), Nil,
      List(<<Symbol("a")>>), List(<<Symbol("a"), Symbol("a")>>),
      List(<<Symbol("a"), AtomInt(1)>>), List(<<Symbol("name"), Symbol("a")>>) }

SearchData ==
    {Nil, Symbol("a"), AtomInt(1)}
    \cup {List(s) : s \in SeqsUpTo(SearchElems, MaxLen) \ {<< >>}}
    \cup {List(<<Symbol("f"), List(<<Symbol("name"), e>>), List(<<Symbol("g"), e>>)>>) :
            e \in SearchElems}

SearchPatterns ==
    { X, Symbol("a"), AtomInt(1), Nil,
      List(<<X>>), List(<<X, X>>), List(<<X, Y>>), List(<<Symbol("a"), X>>),
      List(<<Symbol("name"), Symbol("?n")>>),
      List(<<Nil, Symbol("a")>>),
      Is(X, "numberp"), Op("?not", <<Symbol("a")>>), Segment("?*", X) }

InitSearch ==
    /\ pattern \in SearchPatterns
    /\ input \in SearchData
    /\ bindings = NoBindings
    /\ result = None
    /\ matches = None
    /\ NoCmd /\ NoParse /\ NoList /\ NoAdapter /\ NoRepl /\ NoHeap /\ NoTerm
    /\ pc = "ready"

\* matches := collectMatches(pattern, input)
Collect ==
    /\ pc = "ready"
    /\ matches' = collectMatches(pattern, input)
    /\ pc' = "collected"
    /\ UNCHANGED <<pattern, input, bindings, result>>
    /\ UNCHANGED <<cmdVars, parseVars, listVars, adapterVars, replVars, heapVars, termVars>>

NextSearch == Collect

SpecSearch == InitSearch /\ [][NextSearch]_vars

(***************************************************************************)
(* C13.  collectMatches(P, E) invokes PatMatch(P, N, empty bindings)        *)
(* exactly once for E and for every non-empty sub-expression N reachable    *)
(* by descending into cars and cdrs, in pre-order (the node, then all under *)
(* its car, then all under its cdr), and returns exactly the non-FAIL       *)
(* results in that visit order; each attempt starts from empty bindings.    *)
(***************************************************************************)
Collected == pc = "collected"

\* the positions of the non-empty sub-expressions of e, as car/cdr paths
RECURSIVE Paths(_)
Paths(e) ==
    IF e = Nil THEN {}
    ELSE IF IsCons(e)
         THEN {<< >>} \cup {<<"car">> \o p : p \in Paths(e.car)}
                      \cup {<<"cdr">> \o p : p \in Paths(e.cdr)}
    ELSE {<< >>}

RECURSIVE At(_, _)
At(e, p) ==
    IF Len(p) = 0 THEN e
    ELSE IF Head(p) = "car" THEN At(e.car, Tail(p)) ELSE At(e.cdr, Tail(p))

\* pre-order on positions: a node before all under it, car side before cdr side
Before(p, q) ==
    \/ Len(p) < Len(q) /\ SubSeq(q, 1, Len(p)) = p
    \/ \E k \in 1..Len(p) :
          /\ k <= Len(q)
          /\ SubSeq(p, 1, k - 1) = SubSeq(q, 1, k - 1)
          /\ p[k] = "car" /\ q[k] = "cdr"

Rank(e, p) == 1 + Cardinality({q \in Paths(e) : Before(q, p)})

\* the non-FAIL results of matching P at each visited node from empty bindings
Successes(pat, nodes) ==
    LET attempts == [k \in 1..Len(nodes) |-> PatMatch(pat, nodes[k], NoBindings)]
        good == SelectSeq(attempts, IsSuccess)
    IN  [k \in 1..Len(good) |-> good[k].b]

C13_CollectMatches ==
    Collected =>
       /\ ~matches.panic
       /\ Len(matches.calls) = Cardinality(Paths(input))
       /\ \A p \in Paths(input) : matches.calls[Rank(input, p)] = At(input, p)
       /\ matches.out = Successes(pattern, matches.calls)

(***************************************************************************)
(* The tree-sitter adapter.  A parse-tree node has a type, is named or      *)
(* anonymous, has children, each with the field name its parent gives it    *)
(* ("" for none), and, when it is a leaf, the source text it spans.         *)
(***************************************************************************)
Node(type, named, content, kids) ==
    [null |-> FALSE, type |-> type, named |-> named, content |-> content, kids |-> kids]

\* a null child
NullNode == [null |-> TRUE]

Kid(field, node) == [field |-> field, node |-> node]

\* the children converted when the includeAnonymous flag is not looked at
IncludedAnyway(kid, inclAnon) == ~kid.node.null

\* the children NodeToLispExpression converts: not null, and named unless
\* anonymous nodes are asked for
Included(kid, inclAnon) ==
    /\ ~kid.node.null
    /\ inclAnon \/ kid.node.named

RECURSIVE NodeToLispExpression(_, _)
RECURSIVE KidsToElements(_, _)

\* the loop over the children: one element per included child
KidsToElements(kids, inclAnon) ==
    IF Len(kids) = 0 THEN << >>
    ELSE LET kid == Head(kids)
             rest == KidsToElements(Tail(kids), inclAnon)
         IN  IF ~Included(kid, inclAnon) THEN rest
             ELSE LET childExpr == NodeToLispExpression(kid.node, inclAnon) IN
                  IF kid.field # ""
                  THEN <<SliceToCons(<<Symbol(kid.field), childExpr>>)>> \o rest
                  ELSE <<childExpr>> \o rest

\* NodeToLispExpression, were it to store the text of a leaf as a symbol
NodeToLispExpressionSymbolLeaf(node, inclAnon) ==
    IF node.null THEN Nil
    ELSE LET leaf == IF Len(node.kids) = 0 /\ node.content # ""
                     THEN <<Symbol(node.content)>> ELSE << >>
         IN  SliceToCons(<<Symbol(node.type)>> \o leaf
                            \o KidsToElements(node.kids, inclAnon))

NodeToLispExpression(node, inclAnon) ==
    IF node.null THEN Nil
    ELSE LET leaf == IF Len(node.kids) = 0 /\ node.content # ""
                     THEN <<AtomStr(node.content)>> ELSE << >>
         IN  SliceToCons(<<Symbol(node.type)>> \o leaf
                            \o KidsToElements(node.kids, inclAnon))

(***************************************************************************)
(* Display: the String methods of Symbol, Atom and Cons.  The outcome is    *)
(* the string, or a panic when String is called on the nil interface.       *)
(***************************************************************************)
Str(s) == [panic |-> FALSE, s |-> s]

\* fmt.Sprintf("%v", v) for a float64 kept in halves: 1.5 shows "1.5", 2.0 shows "2"
FloatString(h) ==
    LET a == IF h < 0 THEN -h ELSE h
        sign == IF h < 0 THEN "-" ELSE ""
    IN  IF a % 2 = 0 THEN sign \o ToString(a \div 2)
        ELSE sign \o ToString(a \div 2) \o ".5"

RECURSIVE ExprString(_)
RECURSIVE JoinElements(_)

\* the loop of Cons.String over a proper list: the cars' strings joined by " "
JoinElements(current) ==
    LET carStr == ExprString(current.car) IN
    IF carStr.panic THEN Panic
    ELSE IF current.cdr = Nil THEN carStr
    ELSE LET rest == JoinElements(current.cdr) IN
         IF rest.panic THEN Panic ELSE Str(carStr.s \o " " \o rest.s)

ExprString(e) ==
    CASE e.t = "nil" -> Panic
      [] e.t = "sym" -> Str(e.name)
      [] e.t = "int" -> Str(ToString(e.i))
      [] e.t = "float" -> Str(FloatString(e.h))
      [] e.t = "str" -> Str(e.s)
      [] e.t = "cons" ->
            IF e.cdr = Nil
            THEN LET carStr == ExprString(e.car) IN
                 IF carStr.panic THEN Panic ELSE Str("(" \o carStr.s \o ")")
            ELSE IF IsList(e)
            THEN LET joined == JoinElements(e) IN
                 IF joined.panic THEN Panic ELSE Str("(" \o joined.s \o ")")
            ELSE LET carStr == ExprString(e.car)
                     cdrStr == ExprString(e.cdr)
                 IN  IF carStr.panic \/ cdrStr.panic THEN Panic
                     ELSE Str("(" \o carStr.s \o " . " \o cdrStr.s \o ")")

\* Binding.String panics when it calls String on a nil value
BindingStringPanics(b) ==
    /\ ~IsFail(b)
    /\ \E k \in DOMAIN b : ExprString(b[k]).panic

(***************************************************************************)
(* The pattern command (PatternCmd.Run): the pattern is parsed once, every  *)
(* file is converted and searched in turn, a block is printed for a file    *)
(* with matches, and the exit status is set at the end.                     *)
(***************************************************************************)
\* children per inner node of the enumerated trees
MaxKids == 2

\* leaves: named with text, of type name, anonymous, and named without text
LeafNodes ==
    { Node("id", TRUE, "x", << >>), Node("name", TRUE, "x", << >>),
      Node("id", FALSE, "x", << >>), Node("id", TRUE, "", << >>) }

KidFields == {"", "name", "body"}

Kids == {Kid(field, node) : field \in KidFields, node \in LeafNodes \cup {NullNode}}

InnerNodes ==
    {Node(type, TRUE, "", kids) :
        type \in {"f", "name"}, kids \in SeqsUpTo(Kids, MaxKids) \ {<< >>}}

\* a declaration whose name field comes after a child that has a name field
Nested ==
    Node("f", TRUE, "",
         <<Kid("body", Node("g", TRUE, "", <<Kid("name", Node("id", TRUE, "y", << >>))>>)),
           Kid("name", Node("id", TRUE, "x", << >>))>>)

RootNodes ==
    {Node("root", TRUE, "", <<Kid(field, Node(type, TRUE, "", <<Kid(f2, leaf)>>))>>) :
        field \in {"", "name"}, type \in {"f", "name"}, f2 \in KidFields,
        leaf \in LeafNodes}
    \cup {Nested, Node("root", TRUE, "", <<Kid("", Nested), Kid("", Nested)>>)}

Trees == {NullNode} \cup LeafNodes \cup InnerNodes \cup RootNodes

\* a file the command can convert, and one it cannot read or parse
SourceFile(tree) == [err |-> FALSE, tree |-> tree]

BadFile == [err |-> TRUE]

FewFiles ==
    { BadFile,
      SourceFile(Nested),
      SourceFile(Node("id", TRUE, "x", << >>)),
      SourceFile(Node("f", TRUE, "", <<Kid("name", Node("id", TRUE, "x", << >>))>>)),
      SourceFile(Node("f", TRUE, "", <<Kid("body", Node("id", TRUE, "", << >>))>>)) }

\* the outcome of pm.Parse(patternStr) on a text that does not parse
ParseError == [t |-> "error"]

NamePattern == List(<<Symbol("name"), Symbol("?n")>>)

CmdPatterns ==
    { NamePattern, ParseError, X, Nil, Segment("?*", X), Symbol("id"),
      List(<<Symbol("id"), X>>), List(<<X, Y>>),
      List(<<Symbol("f"), List(<<Symbol("name"), X>>)>>),
      Op("?or", <<Symbol("id"), List(<<Symbol("f"), Nil>>)>>) }

InitCmd ==
    /\ \/ /\ pattern = NamePattern
          /\ files \in {<<SourceFile(tree)>> : tree \in Trees}
       \/ /\ pattern \in CmdPatterns
          /\ files \in SeqsUpTo(FewFiles, MaxLen) \ {<< >>}
    /\ includeAnonymous \in BOOLEAN
    /\ fileIdx = 1
    /\ totalMatches = 0
    /\ stdout = << >>
    /\ exitCode = None
    /\ matches = None
    /\ input = None /\ bindings = None /\ result = None
    /\ NoParse /\ NoList /\ NoAdapter /\ NoRepl /\ NoHeap /\ NoTerm
    /\ pc = "start"

\* os.Exit(code), also the exit of the Go run-time after a panic (status 2)
Exit(code) ==
    /\ exitCode' = code
    /\ pc' = "exited"

\* pat, err := pm.Parse(patternStr); cobra.CheckErr(err)
Start ==
    /\ pc = "start"
    /\ IF pattern = ParseError
       THEN Exit(1)
       ELSE pc' = "loop" /\ UNCHANGED exitCode
    /\ UNCHANGED <<pattern, input, bindings, result, matches>>
    /\ UNCHANGED <<includeAnonymous, files, fileIdx, totalMatches, stdout>>
    /\ UNCHANGED <<parseVars, listVars, adapterVars, replVars, heapVars, termVars>>

Header(idx, count) == [kind |-> "header", file |-> idx, count |-> count]

\* the line "%d) %s" for the i-th match
MatchLine(i, b) == [kind |-> "match", n |-> i, b |-> b]

\* the lines the print loop writes before b.String() panics, if it does
RECURSIVE PrintLoop(_, _, _)
PrintLoop(out, i, lines) ==
    IF i > Len(out) THEN [panic |-> FALSE, lines |-> lines]
    ELSE IF BindingStringPanics(out[i]) THEN [panic |-> TRUE, lines |-> lines]
    ELSE PrintLoop(out, i + 1, Append(lines, MatchLine(i, out[i])))

\* one turn of the loop over the files
ProcessFile ==
    /\ pc = "loop"
    /\ fileIdx <= Len(files)
    /\ LET f == files[fileIdx] IN
       IF f.err
       THEN Exit(1) /\ UNCHANGED <<matches, totalMatches, stdout, fileIdx>>
       ELSE LET expr == NodeToLispExpression(f.tree, includeAnonymous)
                m == collectMatches(pattern, expr)
            IN  /\ matches' = m
                /\ IF m.panic
                   THEN Exit(2) /\ UNCHANGED <<totalMatches, stdout, fileIdx>>
                   ELSE IF Len(m.out) = 0
                   THEN /\ fileIdx' = fileIdx + 1
                        /\ UNCHANGED <<totalMatches, stdout, exitCode, pc>>
                   ELSE LET printed == PrintLoop(m.out, 1, <<Header(fileIdx, Len(m.out))>>)
                        IN  /\ stdout' = stdout \o printed.lines
                            /\ IF printed.panic
                               THEN Exit(2) /\ UNCHANGED <<totalMatches, fileIdx>>
                               ELSE /\ totalMatches' = totalMatches + Len(m.out)
                                    /\ fileIdx' = fileIdx + 1
                                    /\ UNCHANGED <<exitCode, pc>>
    /\ UNCHANGED <<pattern, input, bindings, result, includeAnonymous, files>>
    /\ UNCHANGED <<parseVars, listVars, adapterVars, replVars, heapVars, termVars>>

\* after the loop: os.Exit(1) when nothing matched, a normal return otherwise
Finish ==
    /\ pc = "loop"
    /\ fileIdx > Len(files)
    /\ Exit(IF totalMatches = 0 THEN 1 ELSE 0)
    /\ UNCHANGED <<pattern, input, bindings, result, matches>>
    /\ UNCHANGED <<includeAnonymous, files, fileIdx, totalMatches, stdout>>
    /\ UNCHANGED <<parseVars, listVars, adapterVars, replVars, heapVars, termVars>>

NextCmd == Start \/ ProcessFile \/ Finish

SpecCmd == InitCmd /\ [][NextCmd]_vars

(***************************************************************************)
(* C14.  The search driver run with the pattern (name ?n) over the adapter  *)
(* output of a parse tree yields exactly one match per tree node that has   *)
(* an included child with field name "name", in pre-order of those nodes,   *)
(* with ?n bound to that child's expression; no other sub-expression (a     *)
(* list tail, a node whose type is itself called name) produces a match.    *)
(***************************************************************************)
\* the file of a one-file run of (name ?n) has been searched
NameSearched ==
    /\ pattern = NamePattern
    /\ Len(files) = 1 /\ ~files[1].err
    /\ fileIdx = 2

RECURSIVE ConcatAll(_)
ConcatAll(seqs) == IF Len(seqs) = 0 THEN << >> ELSE Head(seqs) \o ConcatAll(Tail(seqs))

IncludedKids(node, inclAnon) ==
    SelectSeq(node.kids, LAMBDA kid : Included(kid, inclAnon))

NameKids(node, inclAnon) ==
    SelectSeq(IncludedKids(node, inclAnon), LAMBDA kid : kid.field = "name")

\* one match per node with a name child, the nodes in pre-order
RECURSIVE MatchPerNode(_, _)
MatchPerNode(node, inclAnon) ==
    IF node.null THEN << >>
    ELSE LET named == NameKids(node, inclAnon)
             own == IF Len(named) = 0 THEN << >>
                    ELSE <<"?n" :> NodeToLispExpression(named[1].node, inclAnon)>>
             kids == IncludedKids(node, inclAnon)
         IN  own \o ConcatAll([k \in 1..Len(kids) |-> MatchPerNode(kids[k].node, inclAnon)])

C14_NameSearch ==
    NameSearched =>
        /\ ~matches.panic
        /\ matches.out = MatchPerNode(files[1].tree, includeAnonymous)

\* the elements that follow the type symbol in a node's expression
Elements(node, inclAnon) == ConsToSlice(NodeToLispExpression(node, inclAnon).cdr)

\* one match per node of type name that has exactly one element after its
\* type, then, child by child, one match per name field followed by the
\* matches under that child
RECURSIVE MatchPerPair(_, _)
MatchPerPair(node, inclAnon) ==
    IF node.null THEN << >>
    ELSE LET own == IF node.type = "name" /\ Len(Elements(node, inclAnon)) = 1
                    THEN <<"?n" :> Elements(node, inclAnon)[1]>>
                    ELSE << >>
             kids == IncludedKids(node, inclAnon)
             under(kid) ==
                 (IF kid.field = "name"
                  THEN <<"?n" :> NodeToLispExpression(kid.node, inclAnon)>>
                  ELSE << >>) \o MatchPerPair(kid.node, inclAnon)
         IN  own \o ConcatAll([k \in 1..Len(kids) |-> under(kids[k])])

C14_NameSearchAmended ==
    NameSearched =>
        /\ ~matches.panic
        /\ matches.out = MatchPerPair(files[1].tree, includeAnonymous)

C14_Witness ==
    /\ NameSearched
    /\ files[1].tree = Nested
    /\ matches.out = << "?n" :> List(<<Symbol("id"), AtomStr("y")>>),
                        "?n" :> List(<<Symbol("id"), AtomStr("x")>>) >>

(***************************************************************************)
(* C15.  The pattern command exits with a non-zero status iff the total     *)
(* number of matches over all input files is zero.  For every file with at  *)
(* least one match it prints one block whose header reports that file's     *)
(* match count, followed by each match's bindings numbered from 1 in        *)
(* traversal order; a file with no match prints nothing, and the reported   *)
(* count always equals the number of binding lines printed.                 *)
(***************************************************************************)
Exited == pc = "exited"

Headers == {k \in 1..Len(stdout) : stdout[k].kind = "header"}

RECURSIVE SumCounts(_)
SumCounts(S) ==
    IF S = {} THEN 0
    ELSE LET k == CHOOSE k \in S : TRUE IN stdout[k].count + SumCounts(S \ {k})

\* the matches the headers report
ReportedMatches == SumCounts(Headers)

\* the binding lines printed
BindingLines == {k \in 1..Len(stdout) : stdout[k].kind = "match"}

\* the block that starts at the header in line k is complete: count lines,
\* numbered from 1, holding the file's matches in traversal order
BlockAt(k) ==
    LET count == stdout[k].count
        found == collectMatches(pattern,
                     NodeToLispExpression(files[stdout[k].file].tree, includeAnonymous)).out
    IN  /\ count = Len(found)
        /\ count >= 1
        /\ k + count <= Len(stdout)
        /\ \A j \in 1..count : stdout[k + j] = MatchLine(j, found[j])
        /\ k + count < Len(stdout) => stdout[k + count + 1].kind = "header"

C15_ExitStatus ==
    /\ Exited => ((exitCode # 0) <=> (ReportedMatches = 0))
    /\ Exited => \A k \in Headers : BlockAt(k)
    /\ Exited => ReportedMatches = Cardinality(BindingLines)
    /\ Exited => (Len(stdout) > 0 => stdout[1].kind = "header")

(***************************************************************************)
(* The textual parser: Tokenize, Parser.ParseExpression, Parser.parseList,  *)
(* Parse and ParseAll.  An outcome carries err, "" when there is none.      *)
(***************************************************************************)
Token(type, value) == [type |-> type, value |-> value]

CharAt(s, i) == SubSeq(s, i, i)

\* the index of the closing quote of a string that starts at i, 0 if none
ClosingQuote(inputText, i) ==
    LET quotes == {k \in i..Len(inputText) : CharAt(inputText, k) = "\""} IN
    IF quotes = {} THEN 0 ELSE CHOOSE k \in quotes : \A j \in quotes : k <= j

\* the index after a bare token that starts at i: the first white space or
\* parenthesis, or the end of the text
BareEnd(inputText, i) ==
    LET stops == {k \in i..Len(inputText) : CharAt(inputText, k) \in {" ", "(", ")"}} IN
    IF stops = {} THEN Len(inputText) + 1
    ELSE CHOOSE k \in stops : \A j \in stops : k <= j

\* the loop of Tokenize from index i on
RECURSIVE TokenizeFrom(_, _, _)
TokenizeFrom(inputText, i, tokens) ==
    IF i > Len(inputText)
    THEN [err |-> "", tokens |-> Append(tokens, Token("EOF", ""))]
    ELSE LET c == CharAt(inputText, i) IN
         CASE c = " " -> TokenizeFrom(inputText, i + 1, tokens)
           [] c = "(" -> TokenizeFrom(inputText, i + 1, Append(tokens, Token("LPAREN", "(")))
           [] c = ")" -> TokenizeFrom(inputText, i + 1, Append(tokens, Token("RPAREN", ")")))
           [] c = "\"" ->
                 LET close == ClosingQuote(inputText, i + 1) IN
                 IF close = 0 THEN [err |-> "unterminated string"]
                 ELSE TokenizeFrom(inputText, close + 1,
                          Append(tokens, Token("STRING", SubSeq(inputText, i + 1, close - 1))))
           [] OTHER ->
                 LET end == BareEnd(inputText, i)
                     value == SubSeq(inputText, i, end - 1)
                 IN  TokenizeFrom(inputText, end,
                          Append(tokens, Token(IF ParseFloatOk(value) THEN "NUMBER"
                                               ELSE "SYMBOL", value)))

Tokenize(inputText) == TokenizeFrom(inputText, 1, << >>)

\* strconv.ParseInt(value, 10, 64) on the model's tokens
ParseIntOk(s) == Len(Unsigned(s)) > 0 /\ AllDigits(Unsigned(s))

ParseIntVal(s) ==
    IF Head(s) = "-" THEN -DigitsVal(Unsigned(s)) ELSE DigitsVal(Unsigned(s))

\* Parser.current
Current(tokens, pos) == IF pos > Len(tokens) THEN Token("EOF", "") ELSE tokens[pos]

\* Parser.advance
Advance(tokens, pos) == IF pos <= Len(tokens) THEN pos + 1 ELSE pos

Parsed(expr, pos) == [err |-> "", expr |-> expr, pos |-> pos]

Failure(message) == [err |-> message]

RECURSIVE ParseExpression(_, _)
RECURSIVE ParseListLoop(_, _, _)

\* the loop of parseList and what follows it
ParseListLoop(tokens, pos, elems) ==
    IF Current(tokens, pos).type \notin {"RPAREN", "EOF"}
    THEN LET e == ParseExpression(tokens, pos) IN
         IF e.err # "" THEN e
         ELSE ParseListLoop(tokens, e.pos, Append(elems, e.expr))
    ELSE IF Current(tokens, pos).type # "RPAREN" THEN Failure("expected ')'")
    ELSE Parsed(SliceToCons(elems), Advance(tokens, pos))

parseList(tokens, pos) ==
    IF Current(tokens, pos).type # "LPAREN" THEN Failure("expected '('")
    ELSE ParseListLoop(tokens, Advance(tokens, pos), << >>)

ParseExpression(tokens, pos) ==
    LET token == Current(tokens, pos) IN
    CASE token.type = "LPAREN" -> parseList(tokens, pos)
      [] token.type = "SYMBOL" -> Parsed(Symbol(token.value), Advance(tokens, pos))
      [] token.type = "NUMBER" ->
            IF ParseIntOk(token.value)
            THEN Parsed(AtomInt(ParseIntVal(token.value)), Advance(tokens, pos))
            ELSE IF ParseFloatOk(token.value)
            THEN Parsed(AtomFloat(ParseFloatVal(token.value)), Advance(tokens, pos))
            ELSE Failure("invalid number")
      [] token.type = "STRING" -> Parsed(AtomStr(token.value), Advance(tokens, pos))
      [] token.type = "EOF" -> Failure("unexpected end of input")
      [] OTHER -> Failure("unexpected token")

\* Parse, were it to reject a text with tokens after the first expression
ParseWholeText(inputText) ==
    LET lexed == Tokenize(inputText) IN
    IF lexed.err # "" THEN Failure(lexed.err)
    ELSE LET e == ParseExpression(lexed.tokens, 1) IN
         IF e.err = "" /\ Current(lexed.tokens, e.pos).type # "EOF"
         THEN Failure("unexpected token")
         ELSE e

Parse(inputText) ==
    LET lexed == Tokenize(inputText) IN
    IF lexed.err # "" THEN Failure(lexed.err)
    ELSE ParseExpression(lexed.tokens, 1)

\* the loop of ParseAll
RECURSIVE ParseAllLoop(_, _, _)
ParseAllLoop(tokens, pos, expressions) ==
    IF Current(tokens, pos).type = "EOF" THEN [err |-> "", exprs |-> expressions]
    ELSE LET e == ParseExpression(tokens, pos) IN
         IF e.err # "" THEN Failure(e.err)
         ELSE ParseAllLoop(tokens, e.pos, Append(expressions, e.expr))

ParseAll(inputText) ==
    LET lexed == Tokenize(inputText) IN
    IF lexed.err # "" THEN Failure(lexed.err)
    ELSE ParseAllLoop(lexed.tokens, 1, << >>)

(***************************************************************************)
(* Parsing a text, displaying the parse and parsing the display.            *)
(***************************************************************************)
\* texts have up to MaxText characters
MaxText == 5

Alphabet == {"(", ")", "\"", " ", "a", "5", "."}

RECURSIVE TextsOfLen(_)
TextsOfLen(n) ==
    IF n = 0 THEN {""} ELSE {c \o s : c \in Alphabet, s \in TextsOfLen(n - 1)}

Contains(s, sub) ==
    \E k \in 1..(Len(s) - Len(sub) + 1) : SubSeq(s, k, k + Len(sub) - 1) = sub

\* every text whose float literals are exact in halves: a fraction of two
\* digits 5 is left out
Texts ==
    {s \in UNION {TextsOfLen(n) : n \in 0..MaxText} : ~Contains(s, ".55")}

InitParse ==
    /\ text \in Texts
    /\ parsed = None /\ shown = None /\ shownAgain = None /\ reparsed = None
    /\ pattern = None /\ input = None /\ bindings = None /\ result = None
    /\ matches = None
    /\ NoCmd /\ NoList /\ NoAdapter /\ NoRepl /\ NoHeap /\ NoTerm
    /\ pc = "text"

\* expr, err := Parse(text)
ParseText ==
    /\ pc = "text"
    /\ parsed' = Parse(text)
    /\ pc' = "parsed"
    /\ UNCHANGED <<text, shown, shownAgain, reparsed>>
    /\ UNCHANGED <<matchVars, cmdVars, listVars, adapterVars, replVars, heapVars, termVars>>

\* expr.String(), when the parse gave an expression
Display ==
    /\ pc = "parsed"
    /\ parsed.err = ""
    /\ shown' = ExprString(parsed.expr)
    /\ pc' = "shown"
    /\ UNCHANGED <<text, parsed, shownAgain, reparsed>>
    /\ UNCHANGED <<matchVars, cmdVars, listVars, adapterVars, replVars, heapVars, termVars>>

\* Parse(expr.String()), when String returned
Reparse ==
    /\ pc = "shown"
    /\ ~shown.panic
    /\ reparsed' = Parse(shown.s)
    /\ pc' = "reparsed"
    /\ UNCHANGED <<text, parsed, shown, shownAgain>>
    /\ UNCHANGED <<matchVars, cmdVars, listVars, adapterVars, replVars, heapVars, termVars>>

NextParse == ParseText \/ Display \/ Reparse

SpecParse == InitParse /\ [][NextParse]_vars

(***************************************************************************)
(* C16.  Display/parse round trip: for every text T that Parse accepts      *)
(* (symbols, integer atoms, double-quoted string atoms, the empty list (),  *)
(* nested lists of these), display(Parse(T)) is produced without error and  *)
(* Parse(display(Parse(T))) succeeds and is structurally equal to Parse(T). *)
(***************************************************************************)
\* the expression holds no float atom
RECURSIVE NoFloat(_)
NoFloat(e) ==
    CASE e.t = "float" -> FALSE
      [] e.t = "cons" -> NoFloat(e.car) /\ NoFloat(e.cdr)
      [] OTHER -> TRUE

C16_DisplayRoundTrip ==
    /\ (pc = "shown" /\ NoFloat(parsed.expr)) => ~shown.panic
    /\ (pc = "reparsed" /\ NoFloat(parsed.expr)) =>
          /\ reparsed.err = ""
          /\ StructEq(reparsed.expr, parsed.expr)

(***************************************************************************)
(* Binding.String.  The loop ranges over a Go map, whose iteration order    *)
(* is not fixed: every order of the keys is a possible run of the loop.     *)
(***************************************************************************)
\* the orders in which range may yield the keys of b
Orders(b) ==
    {order \in [1..Cardinality(DOMAIN b) -> DOMAIN b] :
        \A i, j \in 1..Cardinality(DOMAIN b) : order[i] = order[j] => i = j}

\* the loop of Binding.String from the i-th key of the order on
RECURSIVE BindingStringLoop(_, _, _, _, _)
BindingStringLoop(b, order, i, str, first) ==
    IF i > Len(order) THEN Str(str \o "}")
    ELSE IF order[i] = "__FAIL__" THEN BindingStringLoop(b, order, i + 1, str, first)
    ELSE LET v == ExprString(b[order[i]]) IN
         IF v.panic THEN Panic
         ELSE BindingStringLoop(b, order, i + 1,
                  str \o (IF first THEN "" ELSE ", ") \o order[i] \o ": " \o v.s, FALSE)

BindingString(b, order) ==
    IF IsFail(b) THEN Str("FAIL")
    ELSE IF Cardinality(DOMAIN b) = 0 THEN Str("{}")
    ELSE BindingStringLoop(b, order, 1, "{", TRUE)

\* bindings as matches return them
ShownValues ==
    { Symbol("a"), Symbol("b"), AtomInt(1), AtomStr("s"), AtomFloat(3), Nil,
      List(<<Symbol("a"), Symbol("b")>>), List(<<Symbol("a"), Nil>>) }

ShownBindings ==
    {NoBindings} \cup FailBindings
    \cup {("?x" :> v) : v \in ShownValues}
    \cup {("?x" :> v) @@ ("?y" :> w) : v \in ShownValues, w \in ShownValues}
    \cup {("?x" :> Symbol("a")) @@ ("?y" :> Symbol("b")) @@ ("?z" :> v) : v \in ShownValues}

InitShow ==
    /\ bindings \in ShownBindings
    /\ shown = None /\ shownAgain = None
    /\ text = None /\ parsed = None /\ reparsed = None
    /\ pattern = None /\ input = None /\ result = None /\ matches = None
    /\ NoCmd /\ NoList /\ NoAdapter /\ NoRepl /\ NoHeap /\ NoTerm
    /\ pc = "bound"

\* b.String()
Show ==
    /\ pc = "bound"
    /\ \E order \in Orders(bindings) : shown' = BindingString(bindings, order)
    /\ pc' = "displayed"
    /\ UNCHANGED <<text, parsed, shownAgain, reparsed>>
    /\ UNCHANGED <<matchVars, cmdVars, listVars, adapterVars, replVars, heapVars, termVars>>

\* b.String() once more, when the first call returned
ShowAgain ==
    /\ pc = "displayed"
    /\ ~shown.panic
    /\ \E order \in Orders(bindings) : shownAgain' = BindingString(bindings, order)
    /\ pc' = "displayedAgain"
    /\ UNCHANGED <<text, parsed, shown, reparsed>>
    /\ UNCHANGED <<matchVars, cmdVars, listVars, adapterVars, replVars, heapVars, termVars>>

NextShow == Show \/ ShowAgain

SpecShow == InitShow /\ [][NextShow]_vars

(***************************************************************************)
(* C17.  Binding display renders FAIL as FAIL, the empty binding as {} and  *)
(* any other binding as {?v1: e1, ?v2: e2, ...} with exactly one entry per  *)
(* bound variable, the FAIL sentinel key never shown, and each value in     *)
(* expression display form (a variable bound to the empty list shows ()).   *)
(* The rendering is deterministic: displaying the same binding twice gives  *)
(* the same string, so the result of (?x ?y ?x) on (a b a) always displays  *)
(* as {?x: a, ?y: b}.                                                       *)
(***************************************************************************)
\* expression display form: the empty list is (), also as an element
RECURSIVE DisplayForm(_)
DisplayForm(e) ==
    CASE e.t = "nil" -> "()"
      [] e.t = "cons" ->
            LET elems == ConsToSlice(e)
                RECURSIVE Join(_)
                Join(k) == IF k = Len(elems) THEN DisplayForm(elems[k])
                           ELSE DisplayForm(elems[k]) \o " " \o Join(k + 1)
            IN  "(" \o Join(1) \o ")"
      [] OTHER -> ExprString(e).s

\* {?v1: e1, ?v2: e2, ...} with the variables in the given order
RECURSIVE Entries(_, _, _)
Entries(b, order, i) ==
    IF i > Len(order) THEN ""
    ELSE (IF i = 1 THEN "" ELSE ", ") \o order[i] \o ": " \o DisplayForm(b[order[i]])
         \o Entries(b, order, i + 1)

Rendering(b, order) == "{" \o Entries(b, order, 1) \o "}"

C17_BindingDisplay ==
    /\ pc \in {"displayed", "displayedAgain"} =>
          /\ ~shown.panic
          /\ IsFail(bindings) => shown.s = "FAIL"
          /\ bindings = NoBindings => shown.s = "{}"
          /\ (~IsFail(bindings) /\ bindings # NoBindings) =>
                \E order \in Orders(bindings) : shown.s = Rendering(bindings, order)
          /\ bindings = ("?x" :> Symbol("a")) @@ ("?y" :> Symbol("b")) =>
                shown.s = "{?x: a, ?y: b}"
    /\ pc = "displayedAgain" => shownAgain = shown

(***************************************************************************)
(* C18.  Parse maps a bare token to an integer atom if the token parses as  *)
(* an integer, otherwise to a float atom if it parses as a float, otherwise *)
(* to a Symbol with that name; a double-quoted token to a string atom       *)
(* holding the text between the quotes; a parenthesised sequence of n >= 1  *)
(* expressions to a proper right-nested chain of n cons cells in source     *)
(* order ending in an empty cdr, and () to the empty value.  Every          *)
(* expression the parser returns is a proper list at every level: it is     *)
(* never a dotted pair.                                                     *)
(***************************************************************************)
\* Parse has returned
ParseReturned == pc \in {"parsed", "shown", "reparsed"}

Chars(s) == {CharAt(s, k) : k \in 1..Len(s)}

\* one bare token: no white space, parenthesis or leading quote
IsBareToken(s) ==
    /\ Len(s) > 0
    /\ Chars(s) \cap {" ", "(", ")"} = {}
    /\ Head(s) # "\""

\* one double-quoted token
IsQuotedToken(s) ==
    /\ Len(s) >= 2
    /\ Head(s) = "\"" /\ CharAt(s, Len(s)) = "\""
    /\ "\"" \notin Chars(SubSeq(s, 2, Len(s) - 1))

Digits == {"0", "1", "2", "3", "4", "5", "6", "7", "8", "9"}

\* an optional sign, then digits only
IntegerLiteral(s) ==
    LET u == IF Head(s) \in {"+", "-"} THEN Tail(s) ELSE s IN
    Len(u) > 0 /\ Chars(u) \subseteq Digits

\* an optional sign, then digits with at most one point among them
FloatLiteral(s) ==
    LET u == IF Head(s) \in {"+", "-"} THEN Tail(s) ELSE s IN
    /\ Chars(u) \subseteq Digits \cup {"."}
    /\ Chars(u) \cap Digits # {}
    /\ Cardinality({k \in 1..Len(u) : CharAt(u, k) = "."}) <= 1

\* the right-nested chain of cons cells over es, ending in an empty cdr
RECURSIVE ChainOf(_)
ChainOf(es) ==
    IF Len(es) = 0 THEN Nil
    ELSE [t |-> "cons", car |-> es[1], cdr |-> ChainOf(SubSeq(es, 2, Len(es)))]

\* no cons cell has a cdr other than a cons cell or the empty value
RECURSIVE ProperEverywhere(_)
ProperEverywhere(e) ==
    e.t = "cons" =>
        /\ e.cdr.t \in {"cons", "nil"}
        /\ ProperEverywhere(e.car)
        /\ ProperEverywhere(e.cdr)

\* the text between the outer parentheses of a parenthesised text
Inner == SubSeq(text, 2, Len(text) - 1)

C18_ParseMapping ==
    ParseReturned =>
       /\ IsBareToken(text) =>
             /\ parsed.err = ""
             /\ parsed.expr =
                   IF IntegerLiteral(text) THEN AtomInt(ParseIntVal(text))
                   ELSE IF FloatLiteral(text) THEN AtomFloat(ParseFloatVal(text))
                   ELSE [t |-> "sym", name |-> text]
       /\ IsQuotedToken(text) =>
             /\ parsed.err = ""
             /\ parsed.expr = AtomStr(SubSeq(text, 2, Len(text) - 1))
       /\ (Len(text) >= 2 /\ Head(text) = "(" /\ CharAt(text, Len(text)) = ")"
              /\ ParseAll(Inner).err = "") =>
             /\ parsed.err = ""
             /\ parsed.expr = ChainOf(ParseAll(Inner).exprs)
       /\ text = "()" => parsed.err = "" /\ parsed.expr = Nil
       /\ parsed.err = "" => ProperEverywhere(parsed.expr)

C18_Witness ==
    /\ pc = "parsed"
    /\ text = "(5 a)"
    /\ parsed.expr = Cons(AtomInt(5), Cons(Symbol("a"), Nil))

(***************************************************************************)
(* C19.  Parsing fails with an error and returns no expression on           *)
(* ill-formed text, and only then: "unterminated string" whenever a double  *)
(* quote in the text is never closed, "expected ')'" when a list is still   *)
(* open at end of input, "unexpected end of input" when an expression is    *)
(* required but the input is exhausted, "unexpected token" when a ) stands  *)
(* where an expression must start.  Text in which every quote and           *)
(* parenthesis is balanced and that contains at least one expression never  *)
(* yields an error, and the parse errors are the only errors raised: the    *)
(* display of a parsed expression does not panic.                           *)
(***************************************************************************)
\* the text read left to right, a double quote opening or closing a string
\* and parentheses counted outside strings: whether a string is open, how
\* many lists are open, and whether a ) came with no list open
RECURSIVE Scan(_, _, _, _, _)
Scan(s, k, inString, depth, stray) ==
    IF k > Len(s) THEN [inString |-> inString, depth |-> depth, stray |-> stray]
    ELSE LET c == CharAt(s, k) IN
         IF c = "\"" THEN Scan(s, k + 1, ~inString, depth, stray)
         ELSE IF inString THEN Scan(s, k + 1, inString, depth, stray)
         ELSE IF c = "(" THEN Scan(s, k + 1, inString, depth + 1, stray)
         ELSE IF c = ")" THEN
             IF depth = 0 THEN Scan(s, k + 1, inString, depth, TRUE)
             ELSE Scan(s, k + 1, inString, depth - 1, stray)
         ELSE Scan(s, k + 1, inString, depth, stray)

Scanned == Scan(text, 1, FALSE, 0, FALSE)

UnclosedQuote == Scanned.inString

OpenList == ~Scanned.inString /\ ~Scanned.stray /\ Scanned.depth > 0

Blank == Chars(text) \subseteq {" "}

\* the first character that is not white space
RECURSIVE FirstChar(_)
FirstChar(s) ==
    IF Len(s) = 0 THEN ""
    ELSE IF Head(s) = " " THEN FirstChar(Tail(s))
    ELSE SubSeq(s, 1, 1)

WellFormed ==
    /\ ~Scanned.inString
    /\ ~Scanned.stray
    /\ Scanned.depth = 0
    /\ ~Blank

C19_ParseErrors ==
    /\ ParseReturned =>
          /\ parsed.err # "" <=> ~WellFormed
          /\ parsed.err # "" => DOMAIN parsed = {"err"}
          /\ UnclosedQuote => parsed.err = "unterminated string"
          /\ OpenList => parsed.err = "expected ')'"
          /\ Blank => parsed.err = "unexpected end of input"
          /\ (~UnclosedQuote /\ FirstChar(text) = ")") =>
                parsed.err = "unexpected token"
          /\ WellFormed => parsed.err = ""
    /\ pc \in {"shown", "reparsed"} => ~shown.panic

(***************************************************************************)
(* List construction: a slice of expressions is turned into a cons chain    *)
(* by SliceToCons and the chain back into a slice by ConsToSlice.           *)
(***************************************************************************)
\* the expressions a slice is built from: the empty value, atoms, a symbol,
\* a list and a dotted pair
SliceElements ==
    {Nil, Symbol("a"), AtomInt(1), AtomStr("s"),
     Cons(Symbol("a"), Nil), Cons(Symbol("a"), Symbol("b"))}

InitList ==
    /\ elements \in SeqsUpTo(SliceElements, MaxLen + 1)
    /\ list = None /\ slice = None
    /\ pattern = None /\ input = None /\ bindings = None
    /\ result = None /\ matches = None
    /\ NoCmd /\ NoParse /\ NoAdapter /\ NoRepl /\ NoHeap /\ NoTerm
    /\ pc = "elements"

\* list := SliceToCons(elements)
ToCons ==
    /\ pc = "elements"
    /\ list' = SliceToCons(elements)
    /\ pc' = "list"
    /\ UNCHANGED <<elements, slice>>
    /\ UNCHANGED <<matchVars, cmdVars, parseVars, adapterVars, replVars, heapVars, termVars>>

\* slice := ConsToSlice(list)
ToSlice ==
    /\ pc = "list"
    /\ slice' = ConsToSlice(list)
    /\ pc' = "slice"
    /\ UNCHANGED <<elements, list>>
    /\ UNCHANGED <<matchVars, cmdVars, parseVars, adapterVars, replVars, heapVars, termVars>>

NextList == ToCons \/ ToSlice

SpecList == InitList /\ [][NextList]_vars

(***************************************************************************)
(* C20.  List construction round trip: for every finite sequence s of       *)
(* expressions ConsToSlice(SliceToCons(s)) equals s element by element (the *)
(* empty sequence maps to the empty value and back to the empty sequence),  *)
(* and SliceToCons(s) is always a proper list of length len(s).             *)
(***************************************************************************)
\* the number of cons cells along the cdr chain
RECURSIVE CellCount(_)
CellCount(e) == IF e.t = "cons" THEN 1 + CellCount(e.cdr) ELSE 0

C20_ListRoundTrip ==
    /\ pc \in {"list", "slice"} =>
          /\ IsList(list)
          /\ CellCount(list) = Len(elements)
          /\ elements = << >> <=> list = Nil
    /\ pc = "slice" =>
          /\ Len(slice) = Len(elements)
          /\ \A k \in 1..Len(elements) : slice[k] = elements[k]
          /\ elements = << >> => slice = << >>

C20_Witness ==
    /\ pc = "slice"
    /\ elements = <<Symbol("a"), Nil, Cons(Symbol("a"), Symbol("b"))>>
    /\ list = Cons(Symbol("a"), Cons(Nil, Cons(Cons(Symbol("a"), Symbol("b")), Nil)))
    /\ slice = elements

(***************************************************************************)
(* The adapter applied to one node: NodeToLispExpression(node, content,     *)
(* includeAnonymous).  The source text of a leaf is kept in the node; a     *)
(* nil node pointer and a null node are the one NullNode.                   *)
(***************************************************************************)
InitAdapter ==
    /\ treeNode \in Trees
    /\ includeAnonymous \in BOOLEAN
    /\ treeExpr = None
    /\ files = None /\ fileIdx = None /\ totalMatches = None
    /\ stdout = None /\ exitCode = None
    /\ pattern = None /\ input = None /\ bindings = None
    /\ result = None /\ matches = None
    /\ NoParse /\ NoList /\ NoRepl /\ NoHeap /\ NoTerm
    /\ pc = "node"

\* treeExpr := NodeToLispExpression(treeNode, content, includeAnonymous)
Convert ==
    /\ pc \in {"node", "converted"}
    /\ treeExpr' = NodeToLispExpression(treeNode, includeAnonymous)
    /\ pc' = IF pc = "node" THEN "converted" ELSE "convertedAgain"
    /\ UNCHANGED <<treeNode, includeAnonymous>>
    /\ UNCHANGED <<files, fileIdx, totalMatches, stdout, exitCode>>
    /\ UNCHANGED <<matchVars, parseVars, listVars, replVars, heapVars, termVars>>

NextAdapter == Convert

SpecAdapter == InitAdapter /\ [][NextAdapter]_vars

(***************************************************************************)
(* C21.  NodeToLispExpression projects a null or missing node to the empty  *)
(* value, and any other node to a proper list whose first element is the    *)
(* Symbol of the node's type followed, in child order, by one element per   *)
(* included child (every named child; anonymous children only when          *)
(* includeAnonymous is set): the two-element list (field_name childExpr)    *)
(* when the parent gives the child a field name, otherwise childExpr        *)
(* itself.  A node with no children at all additionally carries exactly one *)
(* string Atom holding its source text when that text is non-empty.  The    *)
(* conversion never modifies the tree, and equal inputs give equal          *)
(* expressions.                                                             *)
(***************************************************************************)
RECURSIVE Projection(_, _)
RECURSIVE ChildElements(_, _)

\* one element per included child, in child order
ChildElements(kids, inclAnon) ==
    IF kids = << >> THEN << >>
    ELSE LET k == kids[1]
             rest == ChildElements(SubSeq(kids, 2, Len(kids)), inclAnon)
         IN  IF k.node.null THEN rest
             ELSE IF ~k.node.named /\ ~inclAnon THEN rest
             ELSE IF k.field # ""
             THEN <<ChainOf(<<[t |-> "sym", name |-> k.field],
                              Projection(k.node, inclAnon)>>)>> \o rest
             ELSE <<Projection(k.node, inclAnon)>> \o rest

Projection(n, inclAnon) ==
    IF n.null THEN Nil
    ELSE LET type == <<[t |-> "sym", name |-> n.type]>>
             leafText == IF n.kids = << >> /\ n.content # ""
                         THEN <<[t |-> "str", s |-> n.content]>> ELSE << >>
         IN  ChainOf(type \o leafText \o ChildElements(n.kids, inclAnon))

ReservedOperators == {"?is", "?and", "?or", "?not", "?if"}

StartsWith(s, p) == Len(s) >= Len(p) /\ \A k \in 1..Len(p) : CharAt(s, k) = CharAt(p, k)

SegmentName(s) == StartsWith(s, "?*") \/ StartsWith(s, "?+") \/ StartsWith(s, "??")

\* e and every expression inside e
RECURSIVE SubExpressions(_)
SubExpressions(e) ==
    IF e.t = "cons" THEN {e} \cup SubExpressions(e.car) \cup SubExpressions(e.cdr)
    ELSE {e}

\* the variables a match added to the bindings it was given
NewlyBound == DOMAIN result.b \ DOMAIN bindings

C22_Classification ==
    Done =>
       /\ \A e \in SubExpressions(pattern) :
             /\ IsVariable(e) <=>
                   /\ e.t = "sym"
                   /\ StartsWith(e.name, "?")
                   /\ e.name \notin ReservedOperators
                   /\ ~SegmentName(e.name)
             /\ IsSegmentPattern(e) <=>
                   e.t = "cons" /\ e.car.t = "sym" /\ SegmentName(e.car.name)
             /\ IsSinglePattern(e) <=>
                   e.t = "cons" /\ e.car.t = "sym" /\ e.car.name \in ReservedOperators
             /\ ~(IsVariable(e) /\ IsSegmentPattern(e))
             /\ ~(IsVariable(e) /\ IsSinglePattern(e))
             /\ ~(IsSegmentPattern(e) /\ IsSinglePattern(e))
       /\ (IsCons(pattern) /\ Succeeded /\ ~IsFail(bindings)) =>
             NewlyBound \cap ReservedOperators = {}

(***************************************************************************)
(* Binding maps as Go holds them: a Binding is a reference to a map, the    *)
(* package variables NoBindings and Fail are two maps made once and shared  *)
(* by every caller, and ExtendBindings makes a new map.  heap is the        *)
(* sequence of the maps made so far, a reference is an index into it.  The  *)
(* maps PatMatch makes are those of its calls of ExtendBindings; the maps   *)
(* of alternatives it abandons are not referenced by anything and are left  *)
(* out.                                                                     *)
(***************************************************************************)
\* at most MaxMaps maps are followed
MaxMaps == 4

NoBindingsRef == 1

FailRef == 2

Returned(h, ref) == [panic |-> FALSE, heap |-> h, ref |-> ref]

\* ExtendBindings writing the entry into the map it is given
ExtendBindingsInPlace(h, variable, value, b) ==
    IF IsFail(h[b]) THEN Returned(h, FailRef)
    ELSE Returned([h EXCEPT ![b] = (variable :> value) @@ h[b]], b)

\* ExtendBindings: newBindings := make(Binding), the copy loop, the new entry
ExtendBindingsAt(h, variable, value, b) ==
    IF IsFail(h[b]) THEN Returned(h, FailRef)
    ELSE Returned(Append(h, (variable :> value) @@ h[b]), Len(h) + 1)

MatchVariableAt(h, pat, inp, b) ==
    IF IsFail(h[b]) THEN Returned(h, FailRef)
    ELSE IF ~IsSymbol(pat) \/ ~IsVariable(pat) THEN Returned(h, FailRef)
    ELSE IF HasBinding(pat.name, h[b])
         THEN LET eq == Equal(GetBinding(pat.name, h[b]), inp) IN
              IF eq = "panic" THEN Panic
              ELSE IF eq = "true" THEN Returned(h, b)
              ELSE Returned(h, FailRef)
    ELSE ExtendBindingsAt(h, pat.name, inp, b)

\* the calls of ExtendBindings that lead from the map at b to the map target
RECURSIVE ExtendAll(_, _, _, _)
ExtendAll(h, b, keys, target) ==
    IF keys = {} THEN Returned(h, b)
    ELSE LET k == CHOOSE k \in keys : TRUE
             r == ExtendBindingsAt(h, k, target[k], b)
         IN  ExtendAll(r.heap, r.ref, keys \ {k}, target)

PatMatchAt(h, pat, inp, b) ==
    LET r == PatMatch(pat, inp, h[b]) IN
    IF r.panic THEN Panic
    ELSE IF r.b = h[b] THEN Returned(h, b)
    ELSE IF r.b = Fail THEN Returned(h, FailRef)
    ELSE ExtendAll(h, b,
                   {k \in DOMAIN r.b : k \notin DOMAIN h[b] \/ h[b][k] # r.b[k]},
                   r.b)

HeapVariables == {"?x", "?y"}

HeapValues == {Symbol("a"), AtomInt(1), Nil}

HeapPatterns ==
    { X, Symbol("a"), List(<<X, Y>>), List(<<X, X>>), Is(X, "numberp"),
      Segment("??", Y), Op("?and", <<X, Y>>) }

HeapData == {Symbol("a"), AtomInt(1), Nil, List(<<Symbol("a"), AtomInt(1)>>)}

InitHeap ==
    /\ heap = <<NoBindings, Fail>>
    /\ handle = NoBindingsRef
    /\ call = [op |-> "none"]
    /\ pattern = None /\ input = None /\ bindings = None
    /\ result = None /\ matches = None
    /\ NoCmd /\ NoParse /\ NoList /\ NoAdapter /\ NoRepl /\ NoTerm
    /\ pc = "running"

\* the outcome r of a call: the process dies on a panic
Outcome(r) ==
    IF r.panic
    THEN pc' = "panicked" /\ UNCHANGED <<heap, handle>>
    ELSE pc' = pc /\ heap' = r.heap /\ handle' = r.ref

CallExtendBindings ==
    /\ pc = "running" /\ Len(heap) < MaxMaps
    /\ \E variable \in HeapVariables, value \in HeapValues, b \in DOMAIN heap :
          /\ call' = [op |-> "ExtendBindings", variable |-> variable,
                      value |-> value, arg |-> b]
          /\ Outcome(ExtendBindingsAt(heap, variable, value, b))
    /\ UNCHANGED <<matchVars, cmdVars, parseVars, listVars, adapterVars, replVars, termVars>>

CallMatchVariable ==
    /\ pc = "running" /\ Len(heap) < MaxMaps
    /\ \E p \in {X, Symbol("a")}, x \in HeapValues, b \in DOMAIN heap :
          /\ call' = [op |-> "MatchVariable", pattern |-> p, input |-> x, arg |-> b]
          /\ Outcome(MatchVariableAt(heap, p, x, b))
    /\ UNCHANGED <<matchVars, cmdVars, parseVars, listVars, adapterVars, replVars, termVars>>

CallPatMatch ==
    /\ pc = "running" /\ Len(heap) + 1 < MaxMaps
    /\ \E p \in HeapPatterns, x \in HeapData, b \in DOMAIN heap :
          /\ call' = [op |-> "PatMatch", pattern |-> p, input |-> x, arg |-> b]
          /\ Outcome(PatMatchAt(heap, p, x, b))
    /\ UNCHANGED <<matchVars, cmdVars, parseVars, listVars, adapterVars, replVars, termVars>>

NextHeap == CallExtendBindings \/ CallMatchVariable \/ CallPatMatch

SpecHeap == InitHeap /\ [][NextHeap]_vars

(***************************************************************************)
(* C23.  Bindings are never mutated: ExtendBindings returns a fresh mapping *)
(* and leaves its argument unchanged, and extending FAIL returns FAIL.      *)
(* After any sequence of PatMatch, ExtendBindings and MatchVariable calls   *)
(* the shared NoBindings value is still empty, the shared Fail value still  *)
(* contains only the sentinel entry, and the bindings value passed to a     *)
(* call holds exactly the entries it held before the call; PatMatch is a    *)
(* pure function of (pattern, input, bindings).                             *)
(***************************************************************************)
\* a call has returned in this step
ReturnedFrom(op) == call'.op = op /\ pc' = "running"

\* the entries of the map the call was given, before the call
Given == heap[call'.arg]

C23_NeverMutated ==
    /\ [](/\ DOMAIN heap[NoBindingsRef] = {}
          /\ DOMAIN heap[FailRef] = {"__FAIL__"})
    /\ [][\A ref \in DOMAIN heap : ref \in DOMAIN heap' /\ heap'[ref] = heap[ref]]_vars
    /\ [][(ReturnedFrom("ExtendBindings") /\ "__FAIL__" \notin DOMAIN Given) =>
             /\ handle' \notin DOMAIN heap
             /\ DOMAIN heap'[handle'] = DOMAIN Given \cup {call'.variable}
             /\ heap'[handle'][call'.variable] = call'.value
             /\ \A k \in DOMAIN Given \ {call'.variable} : heap'[handle'][k] = Given[k]]_vars
    /\ [][(ReturnedFrom("ExtendBindings") /\ "__FAIL__" \in DOMAIN Given) =>
             "__FAIL__" \in DOMAIN heap'[handle']]_vars
    /\ [][ReturnedFrom("PatMatch") =>
             heap'[handle'] = PatMatch(call'.pattern, call'.input, Given).b]_vars

C23_Witness ==
    /\ pc = "running"
    /\ call = [op |-> "PatMatch", pattern |-> List(<<X, Y>>),
               input |-> List(<<Symbol("a"), AtomInt(1)>>), arg |-> NoBindingsRef]
    /\ Len(heap) = 4
    /\ heap[handle] = ("?x" :> Symbol("a")) @@ ("?y" :> AtomInt(1))
    /\ heap[NoBindingsRef] = NoBindings

(***************************************************************************)
(* C24.  For every integer atom n (negative, zero or positive),             *)
(* (?is ?x oddp) matches n iff n is odd and (?is ?x evenp) matches n iff n  *)
(* is even, so exactly one of the two predicates holds for each integer     *)
(* atom; neither predicate holds for a float atom, a string atom, a symbol  *)
(* or a list.                                                               *)
(***************************************************************************)
\* n is odd: it leaves the remainder 1 on division by 2 (% of TLA+ is the
\* modulus, never negative)
IsOdd(n) == n % 2 = 1

IsEven(n) == n % 2 = 0

\* the call is of (?is v pred) with v not bound
IsCall(pred) ==
    /\ Done
    /\ ~IsFail(bindings)
    /\ \E v \in {"?x", "?y"} :
          /\ pattern = ChainOf(<<[t |-> "sym", name |-> "?is"],
                                 [t |-> "sym", name |-> v],
                                 [t |-> "sym", name |-> pred]>>)
          /\ v \notin DOMAIN bindings

C24_OddEven ==
    /\ (IsCall("oddp") /\ input.t = "int") => (Succeeded <=> IsOdd(input.i))
    /\ (IsCall("evenp") /\ input.t = "int") => (Succeeded <=> IsEven(input.i))
    /\ (Done /\ input.t = "int") =>
          (TestPredicate("oddp", input) <=> ~TestPredicate("evenp", input))
    /\ (Done /\ input.t # "int") =>
          /\ ~TestPredicate("oddp", input)
          /\ ~TestPredicate("evenp", input)
    /\ ((IsCall("oddp") \/ IsCall("evenp")) /\ input.t # "int" /\ input # pattern) =>
          Failed

(***************************************************************************)
(* The REPL (cmd/oak-repl).  The sources hold three builds of it: the one   *)
(* of cmd/oak-repl/main.go, whose slash commands are custom commands and    *)
(* whose /pattern matches at the root of the AST; one whose /pattern runs   *)
(* collectMatches; and one whose slash commands are read by                 *)
(* PatternEvaluator.Evaluate.  Which build runs is fixed at start.  A       *)
(* command returns a message: its name, the text after the name, the        *)
(* output and whether it carries an error.                                  *)
(***************************************************************************)
CustomCommands == "custom commands, match at the root"

CollectingCommands == "custom commands, collectMatches"

EvaluateCommands == "Evaluate, match at the root"

Builds == {CustomCommands, CollectingCommands, EvaluateCommands}

\* the languages a user names: two the query builder knows, one it does not
Languages == {"go", "python", "cobol"}

\* the files a user names: two that exist and one that does not
FileNames == {"a.go", "b.go", "gone.go"}

\* os.ReadFile: the bytes of the file, or an error
ReadFile(name) ==
    CASE name = "a.go" -> [err |-> FALSE, bytes |-> "func main"]
      [] name = "b.go" -> [err |-> FALSE, bytes |-> "var x"]
      [] OTHER -> [err |-> TRUE]

Leaf(type, content) == Node(type, TRUE, content, << >>)

\* the parse tree of a file in a language
TreeOf(name, language) ==
    CASE language = "go" /\ name = "a.go" ->
            Node("source_file", TRUE, "",
                 <<Kid("", Node("function_declaration", TRUE, "",
                                <<Kid("", Node("func", FALSE, "func", << >>)),
                                  Kid("name", Leaf("identifier", "main"))>>))>>)
      [] language = "go" /\ name = "b.go" ->
            Node("source_file", TRUE, "",
                 <<Kid("", Node("var_declaration", TRUE, "",
                                <<Kid("name", Leaf("identifier", "x"))>>))>>)
      [] language = "python" /\ name = "a.go" ->
            Node("module", TRUE, "", <<Kid("", Leaf("ERROR", "func main"))>>)
      [] OTHER ->
            Node("module", TRUE, "", <<Kid("", Leaf("identifier", "var"))>>)

\* qb.ToLispExpression(ctx, file, includeAnonymous): the file is read and
\* parsed in the language of the query builder and its root node converted
ToLispExpression(name, language, inclAnon) ==
    IF ReadFile(name).err \/ language \notin {"go", "python"}
    THEN [err |-> TRUE]
    ELSE [err |-> FALSE, expr |-> NodeToLispExpression(TreeOf(name, language), inclAnon)]

\* the texts a user gives to /pattern
PatternTexts == {"(name ?n)", "(source_file ?x)", "(module ?x)", "cobol", "(", "()"}

Msg(in, raw, output, error) ==
    [input |-> in, raw |-> raw, output |-> output, error |-> error]

InitRepl ==
    /\ variant \in Builds
    /\ currentFile = "" /\ currentLanguage = ""
    /\ fileBytes = "" /\ lispAST = Nil
    /\ msg = Msg("", "", "", FALSE)
    /\ pattern = None /\ input = None /\ bindings = None
    /\ result = None /\ matches = None
    /\ NoCmd /\ NoParse /\ NoList /\ NoAdapter /\ NoHeap /\ NoTerm
    /\ pc = "prompt"

\* /lang with an argument, or with none
LangCmd ==
    /\ pc = "prompt"
    /\ \E arg \in Languages \cup {""} :
          IF variant # EvaluateCommands /\ arg = ""
          THEN /\ msg' = Msg("/lang", arg, "usage: /lang <language>", TRUE)
               /\ UNCHANGED currentLanguage
          ELSE /\ currentLanguage' = arg
               /\ msg' = Msg("/lang", arg, "language set", FALSE)
    /\ UNCHANGED <<variant, currentFile, fileBytes, lispAST, pc>>
    /\ UNCHANGED <<matchVars, cmdVars, parseVars, listVars, adapterVars, heapVars, termVars>>

\* /load with an argument, or with none
LoadCmd ==
    /\ pc = "prompt"
    /\ \E arg \in FileNames \cup {""} :
          IF variant # EvaluateCommands /\ arg = ""
          THEN /\ msg' = Msg("/load", arg, "usage: /load <file>", TRUE)
               /\ UNCHANGED <<currentFile, fileBytes>>
          ELSE LET b == ReadFile(arg) IN
               IF b.err
               THEN /\ msg' = Msg("/load", arg,
                                  IF variant = EvaluateCommands THEN ""
                                  ELSE "no such file", TRUE)
                    /\ UNCHANGED <<currentFile, fileBytes>>
               ELSE /\ currentFile' = arg
                    /\ fileBytes' = b.bytes
                    /\ msg' = Msg("/load", arg,
                                  "loaded " \o arg \o " (" \o ToString(Len(b.bytes))
                                     \o " bytes)", FALSE)
    /\ UNCHANGED <<variant, currentLanguage, lispAST, pc>>
    /\ UNCHANGED <<matchVars, cmdVars, parseVars, listVars, adapterVars, heapVars, termVars>>

\* /ast
AstCmd ==
    /\ pc = "prompt"
    /\ IF currentLanguage = "" \/ currentFile = ""
       THEN /\ msg' = Msg("/ast", "", "usage: /lang <lang> then /load <file>",
                          variant # EvaluateCommands)
            /\ UNCHANGED <<lispAST, pc>>
       ELSE LET r == ToLispExpression(currentFile, currentLanguage, FALSE) IN
            IF r.err
            THEN /\ msg' = Msg("/ast", "",
                               IF variant = EvaluateCommands THEN ""
                               ELSE "unsupported language", TRUE)
                 /\ UNCHANGED <<lispAST, pc>>
            ELSE /\ lispAST' = r.expr
                 /\ LET s == ExprString(r.expr) IN
                    IF s.panic
                    THEN pc' = "crashed" /\ UNCHANGED msg
                    ELSE pc' = pc /\ msg' = Msg("/ast", "", s.s, FALSE)
    /\ UNCHANGED <<variant, currentFile, currentLanguage, fileBytes>>
    /\ UNCHANGED <<matchVars, cmdVars, parseVars, listVars, adapterVars, heapVars, termVars>>

\* the orders of the keys of each of the bindings of out
OrdersOfAll(out) ==
    {os \in [1..Len(out) -> UNION {Orders(out[i]) : i \in 1..Len(out)}] :
        \A i \in 1..Len(out) : os[i] \in Orders(out[i])}

\* the loop over the matches: out += fmt.Sprintf("%d) %s\n", i+1, b.String())
RECURSIVE MatchLines(_, _, _, _)
MatchLines(out, os, i, str) ==
    IF i > Len(out) THEN Str(str)
    ELSE IF IsFail(out[i]) THEN MatchLines(out, os, i + 1, str)
    ELSE LET s == BindingString(out[i], os[i]) IN
         IF s.panic THEN Panic
         ELSE MatchLines(out, os, i + 1, str \o ToString(i) \o ") " \o s.s \o "\n")

\* the message of /pattern, or a panic
PatternOutcomes(raw) ==
    IF lispAST = Nil
    THEN {Str(Msg("/pattern", raw, "no AST; run /ast first", variant # EvaluateCommands))}
    ELSE LET p == Parse(raw) IN
         IF p.err # ""
         THEN {Str(Msg("/pattern", raw,
                       IF variant = EvaluateCommands THEN "" ELSE p.err, TRUE))}
         ELSE IF variant = CollectingCommands
         THEN LET m == collectMatches(p.expr, lispAST) IN
              IF m.panic THEN {Panic}
              ELSE IF Len(m.out) = 0
              THEN {Str(Msg("/pattern", raw, "NO MATCH", FALSE))}
              ELSE {LET s == MatchLines(m.out, os, 1,
                                        "matches: " \o ToString(Len(m.out)) \o "\n")
                    IN  IF s.panic THEN Panic
                        ELSE Str(Msg("/pattern", raw, s.s, FALSE)) :
                       os \in OrdersOfAll(m.out)}
         ELSE LET b == PatMatch(p.expr, lispAST, NoBindings) IN
              IF b.panic THEN {Panic}
              ELSE IF IsFail(b.b)
              THEN {Str(Msg("/pattern", raw, "NO MATCH", FALSE))}
              ELSE {LET s == BindingString(b.b, order) IN
                    IF s.panic THEN Panic
                    ELSE Str(Msg("/pattern", raw, "MATCH " \o s.s, FALSE)) :
                       order \in Orders(b.b)}

\* /pattern with a text
PatternCommand ==
    /\ pc = "prompt"
    /\ \E raw \in PatternTexts :
          \E o \in PatternOutcomes(raw) :
             IF o.panic
             THEN pc' = "crashed" /\ UNCHANGED msg
             ELSE pc' = pc /\ msg' = o.s
    /\ UNCHANGED <<variant, currentFile, currentLanguage, fileBytes, lispAST>>
    /\ UNCHANGED <<matchVars, cmdVars, parseVars, listVars, adapterVars, heapVars, termVars>>

NextRepl == LangCmd \/ LoadCmd \/ AstCmd \/ PatternCommand

SpecRepl == InitRepl /\ [][NextRepl]_vars

(***************************************************************************)
(* C25.  The REPL command /pattern runs the pattern against the current     *)
(* Lisp AST the same way the pattern command of the CLI does: it reports a  *)
(* match whenever the pattern matches at some sub-expression of the AST     *)
(* (for example (name ?n) on a Go file whose AST root is (source_file ...)  *)
(* reports a match with ?n bound to an identifier node), and it reports     *)
(* NO MATCH only when the search driver would collect no match on that AST. *)
(***************************************************************************)
\* /pattern has parsed its text and run it against the AST
PatternRan ==
    /\ pc = "prompt"
    /\ msg.input = "/pattern"
    /\ lispAST # Nil
    /\ Parse(msg.raw).err = ""

\* what the search driver of the CLI collects for the text on the AST
DriverMatches == collectMatches(Parse(msg.raw).expr, lispAST)

C25_ReplAsCli ==
    PatternRan =>
       /\ (~DriverMatches.panic /\ DriverMatches.out # << >>) =>
             msg.output # "NO MATCH" /\ ~msg.error
       /\ msg.output = "NO MATCH" =>
             ~DriverMatches.panic /\ DriverMatches.out = << >>
       /\ (msg.raw = "(name ?n)" /\ lispAST.car = Symbol("source_file")) =>
             \E b \in {DriverMatches.out[i] : i \in 1..Len(DriverMatches.out)} :
                /\ b["?n"].car = Symbol("identifier")
                /\ msg.output # "NO MATCH"

(***************************************************************************)
(* C26.  (?? ?v) binds ?v to the empty list first; only if that alternative *)
(* does not succeed and the input is a Cons does it bind ?v to the input's  *)
(* car; the first alternative that succeeds is returned and FAIL is         *)
(* returned when neither does.  On every success ?v is bound either to the  *)
(* empty list or to exactly one element of the input, and both alternatives *)
(* are reachable for some pattern and input.                                *)
(***************************************************************************)
\* the variable name of the (?? v) form p
QuestionVariable(p) == p.cdr.car.name

IsQuestionForm(p) ==
    /\ p.t = "cons" /\ p.car = [t |-> "sym", name |-> "??"]
    /\ p.cdr.t = "cons" /\ p.cdr.car.t = "sym" /\ p.cdr.cdr = Nil

\* b with v bound to value, FAIL when that holds the sentinel
Alternative(v, value, b) ==
    LET e == (v :> value) @@ b IN
    IF "__FAIL__" \in DOMAIN e THEN Fail ELSE e

\* the input elements of a call whose input is a list
InputElements == {ConsToSlice(input)[k] : k \in 1..Len(ConsToSlice(input))}

\* some call of a (?? v) form returns v bound to one element of the input
OneElementReachable ==
    \E p \in SegmentPatterns, x \in Data, b \in Bindings :
       /\ IsQuestionForm(p)
       /\ x.t = "cons"
       /\ LET r == PatMatch(p, x, b) IN
          /\ IsSuccess(r)
          /\ r.b[QuestionVariable(p)] # Nil
          /\ r.b[QuestionVariable(p)] = x.car

\* some call of a (?? v) form returns v bound to the empty list
EmptyReachable ==
    \E p \in SegmentPatterns, x \in Data, b \in Bindings :
       /\ IsQuestionForm(p)
       /\ LET r == PatMatch(p, x, b) IN
          IsSuccess(r) /\ r.b[QuestionVariable(p)] = Nil

C26_ZeroOrOne ==
    /\ (Done /\ ~IsFail(bindings) /\ IsQuestionForm(pattern) /\ input # pattern) =>
          LET v == QuestionVariable(pattern)
              empty == Alternative(v, Nil, bindings)
              one == IF input.t = "cons" THEN Alternative(v, input.car, bindings)
                     ELSE Fail
          IN  /\ ~result.panic
              /\ result.b = IF empty # Fail THEN empty ELSE one
              /\ Succeeded =>
                    \/ result.b[v] = Nil
                    \/ input.t = "cons" /\ result.b[v] \in InputElements
    /\ EmptyReachable
    /\ OneElementReachable

(***************************************************************************)
(* PatMatch call by call.  A call of PatMatch makes further calls of        *)
(* PatMatch: the compound rule on the cars and then on the cdrs, MatchAnd,  *)
(* MatchOr and MatchNot on the sub-patterns in turn.  stack holds the calls *)
(* that are still to be made, the next one first; one step makes the first  *)
(* call and puts the calls it makes in front of the rest.  frame is the     *)
(* call made last: the rule that handled it, the calls it made and the      *)
(* number of turns of the segment loop it ran.                              *)
(***************************************************************************)
Frame(p, x, b) == [pattern |-> p, input |-> x, bindings |-> b]

RECURSIVE UntilFail(_, _, _)
\* the calls of the loop of MatchAnd: it ends at the first FAIL (or panic)
UntilFail(patterns, x, b) ==
    IF Len(patterns) = 0 THEN << >>
    ELSE LET r == PatMatch(Head(patterns), x, b) IN
         <<Frame(Head(patterns), x, b)>>
            \o (IF r.panic \/ IsFail(r.b) THEN << >>
                ELSE UntilFail(Tail(patterns), x, r.b))

RECURSIVE UntilSuccess(_, _, _)
\* the calls of the loops of MatchOr and MatchNot: they end at the first
\* success (or panic)
UntilSuccess(patterns, x, b) ==
    IF Len(patterns) = 0 THEN << >>
    ELSE LET r == PatMatch(Head(patterns), x, b) IN
         <<Frame(Head(patterns), x, b)>>
            \o (IF r.panic \/ ~IsFail(r.b) THEN << >>
                ELSE UntilSuccess(Tail(patterns), x, b))

\* the compound rule calling PatMatch on the whole pattern and input again
CompoundCallsWhole(p, x, b) ==
    LET firstMatch == PatMatch(p.car, x.car, b) IN
    <<Frame(p.car, x.car, b)>>
       \o (IF firstMatch.panic \/ IsFail(firstMatch.b) THEN << >>
           ELSE IF p.cdr = Nil \/ x.cdr = Nil THEN << >>
           ELSE <<Frame(p, x, firstMatch.b)>>)

\* the calls of the compound rule: the cars, then the cdrs
CompoundCalls(p, x, b) ==
    LET firstMatch == PatMatch(p.car, x.car, b) IN
    <<Frame(p.car, x.car, b)>>
       \o (IF firstMatch.panic \/ IsFail(firstMatch.b) THEN << >>
           ELSE IF p.cdr = Nil \/ x.cdr = Nil THEN << >>
           ELSE <<Frame(p.cdr, x.cdr, firstMatch.b)>>)

\* the rule of PatMatch that handles the call
RuleOf(p, x, b) ==
    IF IsFail(b) THEN "fail"
    ELSE IF IsVariable(p) THEN "variable"
    ELSE IF Equal(p, x) # "false" THEN "exact"
    ELSE IF IsSegmentPattern(p) THEN "segment"
    ELSE IF IsSinglePattern(p) THEN p.car.name
    ELSE IF IsCons(p) /\ IsCons(x) THEN "compound"
    ELSE "none"

\* the calls of PatMatch the call makes itself
RecursiveCalls(p, x, b) ==
    LET rule == RuleOf(p, x, b) IN
    CASE rule = "?and" -> UntilFail(ConsToSlice(p.cdr), x, b)
      [] rule \in {"?or", "?not"} -> UntilSuccess(ConsToSlice(p.cdr), x, b)
      [] rule = "compound" -> CompoundCalls(p, x, b)
      [] OTHER -> << >>

RECURSIVE LoopTurns(_, _, _, _)
\* the turns of the loop of SegmentMatch from segmentLen on
LoopTurns(variable, inputList, b, segmentLen) ==
    IF segmentLen > Len(inputList) THEN 0
    ELSE IF ~IsFail(ExtendBindings(variable, SliceToCons(SubSeq(inputList, 1, segmentLen)), b))
    THEN 1
    ELSE 1 + LoopTurns(variable, inputList, b, segmentLen + 1)

\* the turns of the segment loop the call runs
SegmentTurns(p, x, b) ==
    IF RuleOf(p, x, b) # "segment" \/ p.car.name \notin {"?*", "?+"} THEN 0
    ELSE IF ~IsCons(p.cdr) THEN 0
    ELSE IF ~IsSymbol(p.cdr.car) THEN 0
    ELSE LoopTurns(p.cdr.car.name, ConsToSlice(x), b,
                   IF p.car.name = "?*" THEN 0 ELSE 1)

TermPatterns ==
    MixedPatterns \cup SegmentPatterns
    \cup { X, Symbol("a"), Nil, List(<<X, Y>>), List(<<X, Y, X>>),
           List(<<Symbol("a"), List(<<X, Y>>), Symbol("d")>>),
           List(<<Symbol("a"), List(<<Symbol("b"), X>>), Symbol("d")>>),
           Is(X, "numberp"),
           Op("?if", <<Op(">", <<X, AtomInt(1)>>)>>),
           List(<<X, Op("?if", <<Op(">", <<X, AtomInt(1)>>)>>)>>),
           Op("?and", <<X, Y>>), Op("?or", <<Symbol("b"), X>>),
           Op("?not", <<Symbol("b"), Symbol("a")>>),
           Op("?and", <<Op("?or", <<Symbol("b"), X>>), Op("?not", <<Is(X, "numberp")>>)>>),
           Op("?not", <<Op("?not", <<List(<<X, Y>>)>>)>>),
           List(<<Op("?and", <<X, Y>>), Op("?or", <<Symbol("b"), Y>>)>>) }

TermData == DataLists \cup TestData \cup {Symbol("a"), AtomInt(MaxInt), Nil}

TermBindings == {NoBindings, Fail, "?x" :> Symbol("a"), "?x" :> Nil}

NoFrame == [rule |-> "none yet"]

InitTerm ==
    /\ \E p \in TermPatterns, x \in TermData, b \in TermBindings :
          stack = <<Frame(p, x, b)>>
    /\ frame = NoFrame
    /\ pattern = None /\ input = None /\ bindings = None
    /\ result = None /\ matches = None
    /\ NoCmd /\ NoParse /\ NoList /\ NoAdapter /\ NoRepl /\ NoHeap
    /\ pc = "running"

\* the first call of the stack is made
Step ==
    /\ pc = "running"
    /\ LET c == Head(stack)
           calls == RecursiveCalls(c.pattern, c.input, c.bindings)
       IN  /\ frame' = [rule |-> RuleOf(c.pattern, c.input, c.bindings),
                        pattern |-> c.pattern, input |-> c.input,
                        calls |-> calls,
                        turns |-> SegmentTurns(c.pattern, c.input, c.bindings)]
           /\ IF calls = << >> /\ PatMatch(c.pattern, c.input, c.bindings).panic
              THEN pc' = "panicked" /\ UNCHANGED stack
              ELSE /\ stack' = calls \o Tail(stack)
                   /\ pc' = IF calls \o Tail(stack) = << >> THEN "returned" ELSE pc
    /\ UNCHANGED <<matchVars, cmdVars, parseVars, listVars, adapterVars, replVars, heapVars>>

NextTerm == Step

\* a call that is to be made is made
SpecTerm == InitTerm /\ [][NextTerm]_vars /\ WF_vars(Step)

(***************************************************************************)
(* C27.  PatMatch terminates for every finite pattern, finite input and     *)
(* bindings value: each recursive call made by the compound-list rule is on *)
(* a strictly smaller pattern and input, each recursive call made by ?and,  *)
(* ?or and ?not is on a strict sub-pattern, segment loops run at most once  *)
(* per element of the current input list, and ?if evaluation does not       *)
(* recurse.                                                                 *)
(***************************************************************************)
\* the number of symbols, atoms, empty lists and cons cells of e
RECURSIVE Size(_)
Size(e) == IF e.t = "cons" THEN 1 + Size(e.car) + Size(e.cdr) ELSE 1

\* a call has been made
Called == frame # NoFrame

CallsMade == {frame.calls[k] : k \in 1..Len(frame.calls)}

\* the elements of the input list of the call made last
InputLength == Len(ConsToSlice(frame.input))

Terminates == <>(pc \in {"returned", "panicked"})

CompoundDescends ==
    (Called /\ frame.rule = "compound") =>
       \A c \in CallsMade :
          /\ Size(c.pattern) < Size(frame.pattern)
          /\ Size(c.input) < Size(frame.input)

LogicDescends ==
    (Called /\ frame.rule \in {"?and", "?or", "?not"}) =>
       \A c \in CallsMade :
          /\ c.pattern \in SubExpressions(frame.pattern) \ {frame.pattern}
          /\ c.input = frame.input

IfDoesNotRecurse == (Called /\ frame.rule \in {"?if", "?is"}) => frame.calls = << >>

SegmentDoesNotRecurse == (Called /\ frame.rule = "segment") => frame.calls = << >>

C27_Terminates ==
    /\ Terminates
    /\ [](CompoundDescends /\ LogicDescends /\ IfDoesNotRecurse /\ SegmentDoesNotRecurse)
    /\ [](Called => frame.turns <= InputLength)

\* amended: the segment loop runs at most once per element of the input list
\* and once more for the empty segment
C27_TerminatesAmended ==
    /\ Terminates
    /\ [](CompoundDescends /\ LogicDescends /\ IfDoesNotRecurse /\ SegmentDoesNotRecurse)
    /\ [](Called => frame.turns <= InputLength + 1)
    /\ []((Called /\ frame.rule = "segment" /\ frame.pattern.car.name = "?+") =>
             frame.turns <= InputLength)

\* the calls of (?x (?and ?y (?is ?y numberp))) on (a 1) have all returned
C27_Witness ==
    /\ pc = "returned"
    /\ frame.rule = "variable"
    /\ frame.pattern = Y
    /\ frame.input = AtomInt(1)
    /\ stack = << >>

(***************************************************************************)
(* C28.  REPL session consistency: after any sequence of /lang, /load, /ast *)
(* and /pattern commands, /pattern performs a match only if an /ast command *)
(* has succeeded before it, and the AST it matches against is the one       *)
(* derived from the currently selected file and language (the values last   *)
(* set by successful /load and /lang); a failed /load or /ast leaves the    *)
(* current file, language and AST unchanged.                                *)
(***************************************************************************)
\* the step is the command named, and it has returned its message
Ran(name) == msg'.input = name /\ pc' = "prompt"

\* the step is a /pattern that has matched its pattern against the AST
PerformedMatch ==
    /\ Ran("/pattern")
    /\ ~msg'.error
    /\ msg'.output # "no AST; run /ast first"

\* the AST of the file and language that are selected
CurrentAst == ToLispExpression(currentFile, currentLanguage, FALSE)

Trailing == {" )", " (", " a", " ))", " (a", " ) (", " 5 )", " ()"}

\* the tokens of the text, the end marker left out
TextTokens ==
    LET lexed == Tokenize(text) IN SubSeq(lexed.tokens, 1, Len(lexed.tokens) - 1)

\* the first n tokens are one complete expression, e, and nothing more
FirstComplete(n, e) ==
    ParseAllLoop(Append(SubSeq(TextTokens, 1, n), Token("EOF", "")), 1, << >>)
        = [err |-> "", exprs |-> <<e>>]

\* a text without strings has every parenthesis matched
Balanced == ~Scanned.stray /\ Scanned.depth = 0

C29_ParseFirst ==
    ParseReturned =>
       /\ parsed.err = "" =>
             /\ \E n \in 1..Len(TextTokens) :
                   /\ FirstComplete(n, parsed.expr)
                   /\ parsed.pos = n + 1
             /\ \A rest \in Trailing : Parse(text \o rest) = parsed
       /\ (ParseAll(text).err = "" /\ ParseAll(text).exprs # << >>) =>
             /\ parsed.err = ""
             /\ parsed.expr = ParseAll(text).exprs[1]
       /\ "\"" \notin Chars(text) => (ParseAll(text).err = "" <=> Balanced)
       /\ Blank =>
             /\ ParseAll(text) = [err |-> "", exprs |-> << >>]
             /\ parsed = [err |-> "unexpected end of input"]

C29_Witness ==
    /\ pc = "parsed"
    /\ text = "a ) ("
    /\ parsed.err = "" /\ parsed.expr = Symbol("a")
    /\ ParseAll(text).err # ""

(***************************************************************************)
(* A pattern token against the text of a leaf: the token is parsed, a leaf  *)
(* node is converted by the adapter, and the parsed pattern is matched      *)
(* against an expression of the converted leaf, as the search driver does;  *)
(* or the parsed token is compared by Equal with a symbol or an atom.       *)
(***************************************************************************)
\* the texts of leaves and of pattern tokens
Words == {"main", "42", "a", "4.5", "?x", "-7"}

Quoted(w) == "\"" \o w \o "\""

TokenTexts == Words \cup {Quoted(w) : w \in Words}

LeafTypes == {"identifier", "int_literal"}

LeafBindings ==
    {NoBindings, ExtendBindings("?x", AtomStr("main"), NoBindings),
     ExtendBindings("?y", Symbol("a"), NoBindings)}

\* symbols and atoms, several of them with the same display form
Comparands ==
    {Symbol(w) : w \in Words} \cup {AtomStr(w) : w \in Words}
        \cup {AtomInt(42), AtomInt(-7), AtomFloat(84), AtomFloat(9), AtomFloat(-14)}

InitLeaf ==
    /\ text \in TokenTexts
    /\ treeNode \in {Leaf(type, w) : type \in LeafTypes, w \in Words \cup {""}}
    /\ includeAnonymous = FALSE
    /\ bindings \in LeafBindings
    /\ parsed = None /\ shown = None /\ shownAgain = None /\ reparsed = None
    /\ treeExpr = None
    /\ files = None /\ fileIdx = None /\ totalMatches = None
    /\ stdout = None /\ exitCode = None
    /\ pattern = None /\ input = None /\ result = None /\ matches = None
    /\ NoList /\ NoRepl /\ NoHeap /\ NoTerm
    /\ pc = "token"

\* pattern, err := Parse(text)
ParsePattern ==
    /\ pc = "token"
    /\ parsed' = Parse(text)
    /\ pc' = "parsed"
    /\ UNCHANGED <<text, shown, shownAgain, reparsed>>
    /\ UNCHANGED <<matchVars, cmdVars, listVars, adapterVars, replVars, heapVars, termVars>>

\* NodeToLispExpression(node, content, includeAnonymous) on the leaf
ConvertLeaf ==
    /\ pc = "parsed"
    /\ parsed.err = ""
    /\ treeExpr' = NodeToLispExpression(treeNode, includeAnonymous)
    /\ pc' = "converted"
    /\ UNCHANGED treeNode
    /\ UNCHANGED <<matchVars, cmdVars, parseVars, listVars, replVars, heapVars, termVars>>

\* PatMatch(pattern, e, bindings) on an expression e the walk visits
MatchLeaf ==
    /\ pc = "converted"
    /\ \E k \in 1..Len(walkExpressions(treeExpr)) :
          /\ pattern' = parsed.expr
          /\ input' = walkExpressions(treeExpr)[k]
          /\ result' = PatMatch(pattern', input', bindings)
    /\ pc' = "matched"
    /\ UNCHANGED <<bindings, matches>>
    /\ UNCHANGED <<cmdVars, parseVars, listVars, adapterVars, replVars, heapVars, termVars>>

\* pattern.Equal(other) on a symbol or an atom
CompareLeaf ==
    /\ pc = "parsed"
    /\ parsed.err = ""
    /\ \E other \in Comparands :
          /\ pattern' = parsed.expr
          /\ input' = other
          /\ result' = [equal |-> Equal(pattern', other)]
    /\ pc' = "compared"
    /\ UNCHANGED <<bindings, matches>>
    /\ UNCHANGED <<cmdVars, parseVars, listVars, adapterVars, replVars, heapVars, termVars>>

NextLeaf == ParsePattern \/ ConvertLeaf \/ MatchLeaf \/ CompareLeaf

SpecLeaf == InitLeaf /\ [][NextLeaf]_vars

(***************************************************************************)
(* C30.  Structural equality distinguishes variants and atom tags even      *)
(* when the display forms coincide: a Symbol never equals an Atom, and an   *)
(* integer atom never equals a string or float atom.  Since the adapter     *)
(* stores leaf text only as string atoms, a pattern token written bare (the *)
(* symbol main, the integer 42) never matches a leaf-text atom with the     *)
(* same text, whereas the same text written in double quotes in the pattern *)
(* matches it.                                                              *)
(***************************************************************************)
\* Equal tells variants and atom tags apart
TagsApart ==
    pc = "compared" =>
       /\ (IsSymbol(pattern) /\ IsAtom(input)) => result.equal = "false"
       /\ (IsAtom(pattern) /\ IsSymbol(input)) => result.equal = "false"
       /\ (pattern.t = "int" /\ input.t \in {"str", "float"}) => result.equal = "false"
       /\ (input.t = "int" /\ pattern.t \in {"str", "float"}) => result.equal = "false"
       /\ result.equal = "true" <=> (pattern.t = input.t /\ pattern = input)

\* the text of a leaf is a string atom after the symbol of the node type
LeafTextIsString ==
    pc \in {"converted", "matched"} =>
       treeExpr = IF treeNode.content = ""
                  THEN ChainOf(<<Symbol(treeNode.type)>>)
                  ELSE ChainOf(<<Symbol(treeNode.type), AtomStr(treeNode.content)>>)

\* the pattern was matched against the atom holding the text of the leaf
OnLeafText == pc = "matched" /\ input = AtomStr(treeNode.content)

QuotedMatches ==
    (OnLeafText /\ text = Quoted(treeNode.content)) => result = Ret(bindings)

=============================================================================
